---- MODULE Spec2Model ----
(***************************************************************************)
(* Model of CellManager (src/src/manager/cell-manager.ts): the structural  *)
(* operations of the diagram's cell graph.  The manager works on three     *)
(* collaborators that live outside the file: the cell store (this.model),  *)
(* the view (this.view) and the graph's options (this.graph).  They are    *)
(* modelled from their interface; every manager method is an operator on   *)
(* a store record m, threaded through the calls in the order of the code.  *)
(***************************************************************************)
EXTENDS Integers, Sequences, FiniteSets, TLC

VARIABLES
    parent,       \* cell -> owning cell, or Nil
    children,     \* cell -> sequence of its children (child order)
    geometry,     \* cell -> Geometry record, or Null
    source,       \* edge -> source terminal, or Nil
    target,       \* edge -> target terminal, or Nil
    collapsed,    \* cell -> collapsed flag
    visible,      \* cell -> visible flag
    config,       \* the graph's and the view's options
    updateLevel,  \* nesting depth of the transaction coordinator
    notified,     \* change-sets delivered to observers by the last call
    fired,        \* named events emitted by the last call, with the depth at emission
    applied,      \* store mutations of the last call, in application order
    call,         \* the last public operation and its arguments
    prev,         \* the store as it was when the last call started
    calls         \* number of public operations called since construction

vars == << parent, children, geometry, source, target, collapsed, visible,
           config, updateLevel, notified, fired, applied, call, prev, calls >>

\* the cells of the store as they are now
Snapshot ==
    [ parent |-> parent, children |-> children, geometry |-> geometry,
      source |-> source, target |-> target,
      collapsed |-> collapsed, visible |-> visible ]

-----------------------------------------------------------------------------
(* Values *)

Nil == "null"
Null == [null |-> TRUE]

Root == "root"
Nodes == {"n1", "n2", "n3", "n4"}
Edges == {"e1", "e2", "e3"}
Cells == {Root} \cup Nodes \cup Edges

\* A fixed enumeration of the cells, used wherever the code iterates a list
\* whose order is the insertion order of the store.
CellOrder == << "root", "n1", "n2", "n3", "n4", "e1", "e2", "e3" >>

isEdge(c) == c \in Edges
isNode(c) == c \in Nodes

Max(a, b) == IF a >= b THEN a ELSE b
Min(a, b) == IF a <= b THEN a ELSE b
Half(v) == v \div 2

Point(px, py) == [x |-> px, y |-> py]
Rectangle(rx, ry, rw, rh) == [x |-> rx, y |-> ry, width |-> rw, height |-> rh]

Geometry(gx, gy, gw, gh) ==
    [ bounds |-> Rectangle(gx, gy, gw, gh),
      relative |-> FALSE,
      offset |-> Null,
      alternateBounds |-> Null,
      sourcePoint |-> Null,
      targetPoint |-> Null,
      points |-> << >> ]

EdgeGeometry ==
    [ Geometry(0, 0, 0, 0) EXCEPT !.relative = TRUE ]

\* Rectangle.add: the union of two rectangles
RectAdd(a, b) ==
    LET minX == Min(a.x, b.x)
        minY == Min(a.y, b.y)
        maxX == Max(a.x + a.width, b.x + b.width)
        maxY == Max(a.y + a.height, b.y + b.height)
    IN Rectangle(minX, minY, maxX - minX, maxY - minY)

\* Rectangle.intersect
RectIntersect(a, b) ==
    LET r1 == a.x + a.width
        r2 == b.x + b.width
        b1 == a.y + a.height
        b2 == b.y + b.height
        nx == Max(a.x, b.x)
        ny == Max(a.y, b.y)
    IN Rectangle(nx, ny, Min(r1, r2) - nx, Min(b1, b2) - ny)

getCenterX(r) == r.x + Half(r.width)
getCenterY(r) == r.y + Half(r.height)

\* Geometry.setTerminalPoint
setTerminalPoint(geo, pt, isSource) ==
    IF isSource THEN [geo EXCEPT !.sourcePoint = pt]
    ELSE [geo EXCEPT !.targetPoint = pt]

\* Geometry.translate: shifts the bounds of a non-relative geometry, the
\* terminal points and the waypoints
translate(geo, dx, dy) ==
    LET mv(p) == IF p = Null THEN Null ELSE Point(p.x + dx, p.y + dy)
    IN [ geo EXCEPT
           !.bounds = IF geo.relative THEN @
                      ELSE [@ EXCEPT !.x = @ + dx, !.y = @ + dy],
           !.sourcePoint = mv(@),
           !.targetPoint = mv(@),
           !.points = [i \in DOMAIN @ |-> mv(@[i])] ]

-----------------------------------------------------------------------------
(* Sequences *)

SeqToSet(s) == { s[i] : i \in DOMAIN s }

Contains(s, e) == \E i \in DOMAIN s : s[i] = e

\* the null passed in the place of an array of cells
NoCells == << "no cells" >>

\* the array is null or has a null entry
hasNull(cells) == cells = NoCells \/ Contains(cells, Nil)

RemoveElem(s, e) == SelectSeq(s, LAMBDA v : v # e)

InsertAt(s, e, index) ==
    LET k == Min(Max(index, 0), Len(s))
    IN SubSeq(s, 1, k) \o << e >> \o SubSeq(s, k + 1, Len(s))

\* util.removeDuplicates: keeps the first occurrence of every element
RECURSIVE removeDuplicates(_)
removeDuplicates(s) ==
    IF s = << >> THEN << >>
    ELSE LET front == removeDuplicates(SubSeq(s, 1, Len(s) - 1))
             e == s[Len(s)]
         IN IF Contains(front, e) THEN front ELSE Append(front, e)

-----------------------------------------------------------------------------
(* Cell store and transaction coordinator (this.model) *)

\* The level counts the open batches and is never negative.  The loops and
\* the batch methods below read it first, so that the store a statement
\* leaves is computed before the next statement starts, as in the code.
beginUpdate(m) == [m EXCEPT !.level = @ + 1]

\* The outermost endUpdate delivers the accumulated change-set.
endUpdate(m) ==
    IF m.level = 1
    THEN [m EXCEPT !.level = 0,
                   !.notified = Append(@, m.changes),
                   !.changes = << >>]
    ELSE [m EXCEPT !.level = @ - 1]

\* A store mutation is itself a (nested) transaction that records one entry.
execute(m, mutated, entry) ==
    endUpdate([ mutated EXCEPT !.level = m.level + 1,
                               !.changes = Append(m.changes, entry),
                               !.applied = Append(m.applied, entry) ])

\* a TypeError ends the call
throw(m) == [m EXCEPT !.threw = TRUE]

\* graph.trigger(name): the named event with the transaction depth and the
\* number of mutations made at emission
trigger(m, name, cells) ==
    [m EXCEPT !.fired = Append(@, [name |-> name, cells |-> cells, level |-> m.level,
                                   mutations |-> Len(m.applied)])]

getParent(m, c) == IF c = Nil THEN Nil ELSE m.parent[c]
getChildren(m, c) == IF c = Nil THEN << >> ELSE m.children[c]
getChildCount(m, c) == Len(getChildren(m, c))
getGeometry(m, c) == IF c = Nil THEN Null ELSE m.geometry[c]
getTerminal(m, e, isSource) ==
    IF e = Nil THEN Nil ELSE IF isSource THEN m.source[e] ELSE m.target[e]

setGeometry(m, c, geo) ==
    execute(m, [m EXCEPT !.geometry[c] = geo], << c, "geometry" >>)

getStyle(m, c) == m.style[c]
setStyle(m, c, style) ==
    execute(m, [m EXCEPT !.style[c] = style], << c, "style" >>)

setTerminal(m, e, t, isSource) ==
    execute(m,
            IF isSource THEN [m EXCEPT !.source[e] = t] ELSE [m EXCEPT !.target[e] = t],
            << e, IF isSource THEN "source" ELSE "target" >>)

setCollapsed(m, c, flag) ==
    execute(m, [m EXCEPT !.collapsed[c] = flag], << c, "collapsed" >>)

setVisible(m, c, flag) ==
    execute(m, [m EXCEPT !.visible[c] = flag], << c, "visible" >>)

\* addKeepingOld: the child is inserted and stays among the children of its
\* previous parent
addKeepingOld(m, p, c, index) ==
    IF c = p \/ p = Nil \/ c = Nil THEN m
    ELSE execute(m,
                 [m EXCEPT !.parent[c] = p,
                           !.children[p] = InsertAt(@, c, index)],
                 << c, "parent" >>)

\* model.add: detaches the child from its previous parent, then inserts it
add(m, p, c, index) ==
    IF c = p \/ p = Nil \/ c = Nil THEN m
    ELSE LET old == m.parent[c]
             detached == IF old = Nil THEN m.children
                         ELSE [m.children EXCEPT ![old] = RemoveElem(@, c)]
         IN execute(m,
                    [m EXCEPT !.parent[c] = p,
                              !.children = [detached EXCEPT ![p] = InsertAt(@, c, index)]],
                    << c, "parent" >>)

\* model.remove: detaches the cell from its parent; descendants stay below it
remove(m, c) ==
    LET old == m.parent[c]
    IN IF old = Nil THEN m
       ELSE execute(m,
                    [m EXCEPT !.parent[c] = Nil,
                              !.children[old] = RemoveElem(@, c)],
                    << c, "parent" >>)

RECURSIVE isAncestor(_, _, _)
\* model.isAncestor(p, c): p is c or an ancestor of c
isAncestor(m, p, c) ==
    IF c = Nil THEN FALSE
    ELSE IF c = p THEN TRUE
    ELSE isAncestor(m, p, m.parent[c])

contains(m, c) == isAncestor(m, Root, c)

RECURSIVE getDescendantsOfAll(_, _)
RECURSIVE getDescendants(_, _)
\* model.getDescendants: the subtree below the cell in pre-order
getDescendants(m, c) == << c >> \o getDescendantsOfAll(m, m.children[c])
getDescendantsOfAll(m, cs) ==
    IF cs = << >> THEN << >>
    ELSE getDescendants(m, Head(cs)) \o getDescendantsOfAll(m, Tail(cs))

\* cell.eachEdge: the edges of the store that are connected to the cell
cellEdges(m, c) ==
    SelectSeq(CellOrder,
              LAMBDA e : /\ isEdge(e)
                         /\ contains(m, e)
                         /\ (m.source[e] = c \/ m.target[e] = c))

-----------------------------------------------------------------------------
(* View (this.view): the rendered state of the cells.  The view validates  *)
(* on every change notification, so during a call it shows the store as it *)
(* was when the call started.                                              *)

\* the origin of a cell with geometry geo below a parent with origin po
originOf(po, geo, pgeo, edge) ==
    IF geo = Null \/ edge THEN po
    ELSE IF geo.relative
    THEN Point(po.x + geo.bounds.x * (IF pgeo = Null THEN 0 ELSE pgeo.bounds.width)
                    + (IF geo.offset = Null THEN 0 ELSE geo.offset.x),
               po.y + geo.bounds.y * (IF pgeo = Null THEN 0 ELSE pgeo.bounds.height)
                    + (IF geo.offset = Null THEN 0 ELSE geo.offset.y))
    ELSE Point(po.x + geo.bounds.x, po.y + geo.bounds.y)

RECURSIVE stateOrigin(_, _)
\* state.origin: the absolute position of the cell in model units
stateOrigin(s, c) ==
    IF c = Root \/ s.parent[c] = Nil THEN Point(0, 0)
    ELSE originOf(stateOrigin(s, s.parent[c]), s.geometry[c],
                  s.geometry[s.parent[c]], isEdge(c))

RECURSIVE isRendered(_, _)
\* a cell is rendered when it is visible below visible, expanded ancestors
isRendered(s, c) ==
    IF c = Root THEN TRUE
    ELSE /\ s.parent[c] # Nil
         /\ s.visible[c]
         /\ ~s.collapsed[s.parent[c]]
         /\ isRendered(s, s.parent[c])

\* the view's point for the model point (px, py): translated, then scaled
viewPoint(px, py) ==
    Point(config.scale * (config.translate.x + px), config.scale * (config.translate.y + py))

\* state.bounds of a cell with origin o
scaledBounds(o, geo) ==
    Rectangle(viewPoint(o.x, o.y).x, viewPoint(o.x, o.y).y,
              IF geo = Null THEN 0 ELSE config.scale * geo.bounds.width,
              IF geo = Null THEN 0 ELSE config.scale * geo.bounds.height)

stateBounds(s, c) == scaledBounds(stateOrigin(s, c), s.geometry[c])

centerOf(b) == Point(getCenterX(b), getCenterY(b))

\* the rendered end of an unconnected side: its terminal point, if any
floatingEnd(o, pt) ==
    IF pt = Null THEN Null ELSE viewPoint(o.x + pt.x, o.y + pt.y)

\* the rendered end of a side connected to t: the centre of t, when rendered
connectedEnd(s, t) ==
    IF isRendered(s, t) THEN centerOf(stateBounds(s, t)) ELSE Null

\* the rendered end of an edge: the centre of its rendered terminal, or its
\* terminal point when that end is not connected
edgeEnd(s, e, isSource) ==
    IF isSource
    THEN IF s.source[e] # Nil THEN connectedEnd(s, s.source[e])
         ELSE floatingEnd(stateOrigin(s, e), s.geometry[e].sourcePoint)
    ELSE IF s.target[e] # Nil THEN connectedEnd(s, s.target[e])
         ELSE floatingEnd(stateOrigin(s, e), s.geometry[e].targetPoint)

wayPoints(o, pts) == [ i \in DOMAIN pts |-> viewPoint(o.x + pts[i].x, o.y + pts[i].y) ]

\* state.absolutePoints of an edge with a geometry
absolutePoints(s, e) ==
    << edgeEnd(s, e, TRUE) >>
    \o wayPoints(stateOrigin(s, e), s.geometry[e].points)
    \o << edgeEnd(s, e, FALSE) >>

\* the state of an edge whose route is pts: none while an end is missing
edgeState(o, b, pts) ==
    IF pts[1] = Null \/ pts[Len(pts)] = Null THEN Null
    ELSE [ bounds |-> b, origin |-> o, absolutePoints |-> pts ]

\* view.getState of a store s
stateOf(s, c) ==
    IF c = Nil THEN Null
    ELSE IF ~isRendered(s, c) THEN Null
    ELSE IF isEdge(c)
    THEN IF s.geometry[c] = Null THEN Null
         ELSE edgeState(stateOrigin(s, c), stateBounds(s, c), absolutePoints(s, c))
    ELSE [ bounds |-> stateBounds(s, c),
           origin |-> stateOrigin(s, c),
           absolutePoints |-> Null ]

hasState(s, c) == stateOf(s, c) # Null

\* The store record the manager's methods work on during one call; view is
\* the rendered state of every cell when the call starts.
Store ==
    [ parent |-> parent, children |-> children, geometry |-> geometry,
      source |-> source, target |-> target,
      collapsed |-> collapsed, visible |-> visible,
      style |-> config.style,
      allowNegativeCoordinates |-> config.allowNegativeCoordinates,
      level |-> updateLevel, changes |-> << >>,
      notified |-> << >>, fired |-> << >>, applied |-> << >>,
      threw |-> FALSE,
      view |-> [ c \in Cells |-> stateOf(Snapshot, c) ] ]

\* view.getState during a call
getState(m, c) == IF c = Nil THEN Null ELSE m.view[c]

-----------------------------------------------------------------------------
(* Graph options (this.graph) *)

isExtendParent(c) == config.extendParents /\ ~isEdge(c)
isConstrainChild(m, c) == config.constrainChildren /\ ~isEdge(getParent(m, c))
isCellCollapsed(m, c) == c # Nil /\ m.collapsed[c]
isCellVisible(m, c) == c # Nil /\ m.visible[c]
isCellDeletable(c) == c \notin config.locked
isCellDisconnectable(e, t, isSource) == config.cellsDisconnectable
getDeletableCells(cs) == SelectSeq(cs, LAMBDA c : isCellDeletable(c))
\* graph.getOverlap in halves: the share of its size a child may leave its parent by
getOverlap2(c) == IF config.allowOverlapParent THEN 1 ELSE 0

\* the bounds of a geometry in the frame of the parent: a relative geometry
\* is measured in the parent's size, the offset is added
boxOf(geo, pgeo, pnode) ==
    IF geo.relative
    THEN IF pnode /\ pgeo # Null
         THEN Rectangle(geo.bounds.x * pgeo.bounds.width
                            + (IF geo.offset = Null THEN 0 ELSE geo.offset.x),
                        geo.bounds.y * pgeo.bounds.height
                            + (IF geo.offset = Null THEN 0 ELSE geo.offset.y),
                        geo.bounds.width, geo.bounds.height)
         ELSE Null
    ELSE Rectangle(geo.bounds.x + (IF geo.offset = Null THEN 0 ELSE geo.offset.x),
                   geo.bounds.y + (IF geo.offset = Null THEN 0 ELSE geo.offset.y),
                   geo.bounds.width, geo.bounds.height)

\* the bounds of one cell in the frame of its parent
cellBox(m, c) ==
    boxOf(m.geometry[c], getGeometry(m, m.parent[c]), isNode(m.parent[c]))

shiftedBy(b, pb) ==
    IF b = Null THEN Null
    ELSE IF pb = Null THEN b
    ELSE [b EXCEPT !.x = @ + pb.x, !.y = @ + pb.y]

RECURSIVE boxIn(_, _, _)
\* the bounds of a cell in the frame of the parent of its ancestor top
boxIn(m, c, top) ==
    IF c = top THEN cellBox(m, c)
    ELSE shiftedBy(cellBox(m, c), boxIn(m, m.parent[c], top))

addBox(acc, b) ==
    IF b = Null THEN acc
    ELSE IF acc = Null THEN b
    ELSE RectAdd(acc, b)

nodeBox(m, c, top) ==
    IF isNode(c) /\ m.geometry[c] # Null THEN boxIn(m, c, top) ELSE Null

RECURSIVE unionBoxes(_, _, _, _)
unionBoxes(m, cs, top, acc) ==
    IF cs = << >> THEN acc
    ELSE unionBoxes(m, Tail(cs), top, addBox(acc, nodeBox(m, Head(cs), top)))

\* graph.getBoundingBoxFromGeometry(cells, false) for a cell followed by
\* descendants of it: the union of the node bounds, in the frame of the
\* first cell's parent
getBoundingBoxFromGeometry(m, cs) ==
    IF cs = << >> \/ Head(cs) = Nil THEN Null
    ELSE unionBoxes(m, cs, Head(cs), Null)

-----------------------------------------------------------------------------
(* CellManager: sizing and containment *)

\* graph.isSwimlane / graph.getStartSize, with the style of the swimlanes
isSwimlane(c) == c \in config.swimlanes
getStartSize(c) == config.startSize

\* the inner area of a swimlane behind its start size
swimlaneArea(b, size, lead) ==
    Rectangle(IF lead THEN size.width ELSE 0,
              IF lead THEN size.height ELSE 0,
              b.width - size.width,
              b.height - size.height)

\* the start size as the direction of the swimlane lays it out
directedSize(raw, dir) ==
    IF dir = "south" \/ dir = "north"
    THEN [width |-> raw.height, height |-> raw.width]
    ELSE raw

\* whether the start size lies before the content for the direction and flips
isLeading(dir, flipH, flipV) ==
    \/ (dir = "east" /\ ~flipV)
    \/ (dir = "north" /\ ~flipH)
    \/ (dir = "west" /\ flipV)
    \/ (dir = "south" /\ flipH)

\* the area a parent p with geometry geo offers to its children
containmentArea(p, geo) ==
    IF geo = Null THEN Null
    ELSE IF ~isSwimlane(p)
    THEN Rectangle(0, 0, geo.bounds.width, geo.bounds.height)
    ELSE swimlaneArea(geo.bounds,
                      directedSize(getStartSize(p), config.direction),
                      isLeading(config.direction, config.flipH, config.flipV))

getCellContainmentArea(m, cell) ==
    IF cell = Nil \/ isEdge(cell) THEN Null
    ELSE IF getParent(m, cell) = Nil \/ getParent(m, cell) = Root THEN Null
    ELSE containmentArea(getParent(m, cell), getGeometry(m, getParent(m, cell)))

\* graph.maximumGraphBounds in the frame of the cell's parent
offsetMax(max, off) ==
    IF max # Null /\ off # Null
    THEN [max EXCEPT !.x = @ - off.x, !.y = @ - off.y]
    ELSE max

\* the containment area grown by the overlap a child is allowed
overlapArea(area, overlap2) ==
    IF area # Null /\ overlap2 > 0
    THEN Rectangle(area.x - Half(area.width * overlap2),
                   area.y - Half(area.height * overlap2),
                   area.width + area.width * overlap2,
                   area.height + area.height * overlap2)
    ELSE area

intersectAreas(max, area) ==
    IF area = Null THEN max
    ELSE IF max = Null THEN area
    ELSE RectIntersect(max, area)

\* the rectangle constrainChild keeps the cell in (max), or Null for none
allowedArea(m, cell) ==
    intersectAreas(
        offsetMax(config.maximumGraphBounds,
                  IF config.maximumGraphBounds = Null THEN Null
                  ELSE getBoundingBoxFromGeometry(m, << getParent(m, cell) >>)),
        overlapArea(IF isConstrainChild(m, cell)
                    THEN getCellContainmentArea(m, cell) ELSE Null,
                    getOverlap2(cell)))

\* the cell and its visible descendants, whose bounding box is constrained
constrainedCells(m, cell) ==
    << cell >> \o
    (IF ~isCellCollapsed(m, cell)
     THEN SelectSeq(getDescendants(m, cell), LAMBDA d : isCellVisible(m, d))
     ELSE << >>)

\* the amount a side is cut by to fit the allowed rectangle
shrinkBy(size, maxSize) == IF size > maxSize THEN size - maxSize ELSE 0

\* d after the correction for a bounding box reaching beyond the far side
pastFar(d, bpos, bsize, mpos, msize) ==
    IF bpos + bsize > mpos + msize
    THEN d - (bpos + bsize - mpos - msize - d)
    ELSE d

\* d after the correction for a bounding box starting before the near side
pastNear(d, bpos, mpos) == IF bpos < mpos THEN d - (bpos - mpos) ELSE d

\* dx (dy) of constrainChild on one axis
constrainDelta(size, bpos, bsize, mpos, msize) ==
    pastNear(pastFar(shrinkBy(size, msize), bpos, bsize, mpos, msize), bpos, mpos)

\* the geometry moved by (dx, dy): the offset of a relative geometry
movedBy(geo, dx, dy) ==
    IF dx # 0 \/ dy # 0
    THEN IF geo.relative
         THEN [geo EXCEPT !.offset =
                  IF @ = Null THEN Point(dx, dy) ELSE Point(@.x + dx, @.y + dy)]
         ELSE [geo EXCEPT !.bounds.x = @ + dx, !.bounds.y = @ + dy]
    ELSE geo

\* the geometry constrainChild computes for geo, given max and the bounding box
constrainedGeometry(geo, max, bbox) ==
    movedBy([geo EXCEPT !.bounds.width = @ - shrinkBy(@, max.width),
                        !.bounds.height = @ - shrinkBy(@, max.height)],
            constrainDelta(geo.bounds.width, bbox.x, bbox.width, max.x, max.width),
            constrainDelta(geo.bounds.height, bbox.y, bbox.height, max.y, max.height))

constrainTo(m, cell, geo, max, bbox) ==
    IF max = Null THEN m
    ELSE IF bbox = Null THEN m
    ELSE setGeometry(m, cell, constrainedGeometry(geo, max, bbox))

constrainChild(m, cell) ==
    IF cell = Nil THEN m
    ELSE IF getGeometry(m, cell) = Null THEN m
    ELSE IF ~(config.constrainRelativeChildren \/ ~getGeometry(m, cell).relative) THEN m
    ELSE constrainTo(m, cell, getGeometry(m, cell), allowedArea(m, cell),
                     getBoundingBoxFromGeometry(m, constrainedCells(m, cell)))

RECURSIVE constrainAll(_, _)
constrainAll(m, cs) ==
    IF m.level < 0 \/ cs = << >> THEN m
    ELSE constrainAll(constrainChild(m, Head(cs)), Tail(cs))

constrainChildCells(m, cell) == constrainAll(m, getChildren(m, cell))

\* the geometry cellResized writes: a relative geometry keeps its bounds'
\* position and moves its offset instead
resizedGeometry(geo, bounds, ignoreRelative) ==
    IF ~ignoreRelative /\ geo.relative
    THEN [geo EXCEPT !.offset = IF @ = Null THEN Null
                                ELSE Point(@.x + bounds.x - geo.bounds.x,
                                           @.y + bounds.y - geo.bounds.y),
                     !.bounds.width = bounds.width,
                     !.bounds.height = bounds.height]
    ELSE [geo EXCEPT !.bounds = bounds]

\* a node's absolute geometry is kept out of the negative quadrant unless
\* negative coordinates are allowed
clampNegative(m, cell, geo) ==
    IF ~geo.relative /\ isNode(cell) /\ ~m.allowNegativeCoordinates
    THEN [geo EXCEPT !.bounds.x = Max(0, @), !.bounds.y = Max(0, @)]
    ELSE geo

\* cellResized with recurse = false (graph.resizeChildCells is not called)
cellResized(m, cell, bounds, ignoreRelative) ==
    IF getGeometry(m, cell) = Null THEN m
    ELSE IF getGeometry(m, cell).bounds = bounds THEN m
    ELSE endUpdate(constrainChildCells(
             setGeometry(beginUpdate(m), cell,
                         clampNegative(m, cell,
                             resizedGeometry(getGeometry(m, cell), bounds, ignoreRelative))),
             cell))

RECURSIVE cellsResized(_, _, _)
RECURSIVE cellsResizedLoop(_, _, _, _)
RECURSIVE extendParent(_, _)
RECURSIVE extendParentTo(_, _, _, _)

\* extendParentTo resizing the parent whether or not it has to grow
extendParentToAlways(m, p, pgeo, geo) ==
    IF /\ p # Nil
       /\ pgeo # Null
       /\ ~isCellCollapsed(m, p)
       /\ geo # Null
       /\ ~geo.relative
    THEN cellsResized(m, << p >>,
             << [pgeo.bounds EXCEPT
                   !.width = Max(@, geo.bounds.x + geo.bounds.width),
                   !.height = Max(@, geo.bounds.y + geo.bounds.height)] >>)
    ELSE m

\* the resize of parent p so that the child's geometry geo fits
extendParentTo(m, p, pgeo, geo) ==
    IF /\ p # Nil
       /\ pgeo # Null
       /\ ~isCellCollapsed(m, p)
       /\ geo # Null
       /\ ~geo.relative
       /\ \/ pgeo.bounds.width < geo.bounds.x + geo.bounds.width
          \/ pgeo.bounds.height < geo.bounds.y + geo.bounds.height
    THEN cellsResized(m, << p >>,
             << [pgeo.bounds EXCEPT
                   !.width = Max(@, geo.bounds.x + geo.bounds.width),
                   !.height = Max(@, geo.bounds.y + geo.bounds.height)] >>)
    ELSE m

extendParent(m, cell) ==
    IF cell = Nil THEN m
    ELSE extendParentTo(m, getParent(m, cell), getGeometry(m, getParent(m, cell)),
                        getGeometry(m, cell))

\* the parent extension of cellsResized, for cells whose parent is extended
extendResized(m, cell) ==
    IF isExtendParent(cell) THEN extendParent(m, cell) ELSE m

\* cellsResizedLoop constraining the cell before its parent is extended
cellsResizedLoopConstrainFirst(m, cells, bounds, i) ==
    IF m.level < 0 \/ i > Len(cells) THEN m
    ELSE cellsResizedLoop(
             extendResized(
                 constrainChild(cellResized(m, cells[i], bounds[i], FALSE), cells[i]),
                 cells[i]),
             cells, bounds, i + 1)

cellsResizedLoop(m, cells, bounds, i) ==
    IF m.level < 0 \/ i > Len(cells) THEN m
    ELSE cellsResizedLoop(
             constrainChild(
                 extendResized(cellResized(m, cells[i], bounds[i], FALSE), cells[i]),
                 cells[i]),
             cells, bounds, i + 1)

\* cellsResizedUnchecked: the cells that have a rectangle are resized without
\* the comparison of the lengths
cellsResizedUnchecked(m, cells, bounds) ==
    trigger(endUpdate(cellsResizedLoop(beginUpdate(m),
                                       SubSeq(cells, 1, Min(Len(cells), Len(bounds))),
                                       bounds, 1)),
            "cellsResized", cells)

\* the cellsResized event is emitted after the method's own batch has ended
cellsResized(m, cells, bounds) ==
    IF Len(cells) = Len(bounds)
    THEN trigger(endUpdate(cellsResizedLoop(beginUpdate(m), cells, bounds, 1)),
                 "cellsResized", cells)
    ELSE m

resizeCells(m, cells, bounds) ==
    endUpdate(cellsResized(trigger(beginUpdate(m), "resizeCells", cells), cells, bounds))

-----------------------------------------------------------------------------
(* CellManager: connecting, adding and removing *)

resetEdge(m, edge) ==
    IF getGeometry(m, edge) # Null /\ Len(getGeometry(m, edge).points) > 0
    THEN setGeometry(m, edge, [getGeometry(m, edge) EXCEPT !.points = << >>])
    ELSE m

resetOnConnect(m, edge) ==
    IF config.resetEdgesOnConnect THEN resetEdge(m, edge) ELSE m

\* the values a style or a constraint holds: the number n, or the string
\* `${n}` that the number n is formatted to
Num(n) == [num |-> n]
Str(n) == [text |-> n]
isNum(v) == "num" \in DOMAIN v
isStr(v) == "text" \in DOMAIN v
\* the number an arithmetic operator turns the value into
numberOf(v) == IF isNum(v) THEN v.num ELSE v.text

\* a connection constraint; the fractional point is Null or counts halves of
\* the bounds (0, 1, 2 for 0, 0.5, 1)
Constraint(pt, perimeter, dx, dy) ==
    [point |-> pt, perimeter |-> perimeter, dx |-> dx, dy |-> dy]

\* the style keys of an edge's connection on one side
StyleKeys ==
    { "exitX", "exitY", "exitDx", "exitDy", "exitPerimeter",
      "entryX", "entryY", "entryDx", "entryDy", "entryPerimeter",
      "sourcePort", "targetPort", "edge" }

\* a style without any of the keys (an absent key reads as Null)
NoStyle == [k \in StyleKeys |-> Null]

\* a style that routes an edge as an elbow, for graph.alternateEdgeStyle
ElbowStyle == [NoStyle EXCEPT !["edge"] = [name |-> "elbow"]]

sideKey(isSource, exitKey, entryKey) == IF isSource THEN exitKey ELSE entryKey

\* `${v}`: the spelling of a number
templateOf(v) == Str(numberOf(v))

\* the style value false
False == [bool |-> FALSE]

\* getCellStyle: the default style has none of the connection keys
getCellStyle(m, cell) == IF cell = Nil THEN NoStyle ELSE getStyle(m, cell)

RECURSIVE styleLoop(_, _, _, _, _)
styleLoop(m, key, value, cells, i) ==
    IF m.level < 0 \/ i > Len(cells) THEN m
    ELSE styleLoop(
             IF cells[i] = Nil THEN m
             ELSE setStyle(m, cells[i], [getStyle(m, cells[i]) EXCEPT ![key] = value]),
             key, value, cells, i + 1)

\* updateCellsStyle: a Null value deletes the key
updateCellsStyle(m, key, value, cells) ==
    IF cells # NoCells /\ Len(cells) > 0
    THEN endUpdate(styleLoop(beginUpdate(m), key, value, cells, 1))
    ELSE m

\* the five keys of one side, written one after the other
styleWritten(m, edge, isSource, x, y, dx, dy, perimeter) ==
    updateCellsStyle(
        updateCellsStyle(
            updateCellsStyle(
                updateCellsStyle(
                    updateCellsStyle(m, sideKey(isSource, "exitX", "entryX"), x, << edge >>),
                    sideKey(isSource, "exitY", "entryY"), y, << edge >>),
                sideKey(isSource, "exitDx", "entryDx"), dx, << edge >>),
            sideKey(isSource, "exitDy", "entryDy"), dy, << edge >>),
        sideKey(isSource, "exitPerimeter", "entryPerimeter"), perimeter, << edge >>)

setConnectionConstraint(m, edge, terminal, isSource, constraint) ==
    IF constraint = Null THEN m
    ELSE IF constraint.point = Null
    THEN endUpdate(styleWritten(beginUpdate(m), edge, isSource,
                                Null, Null, Null, Null, Null))
    ELSE endUpdate(styleWritten(beginUpdate(m), edge, isSource,
                                templateOf(constraint.point.x),
                                templateOf(constraint.point.y),
                                templateOf(constraint.dx),
                                templateOf(constraint.dy),
                                IF constraint.perimeter THEN Null ELSE False))

\* isFinite(v) ? v : 0, for an absent key or a finite number or its spelling
finiteOrZero(v) == IF v = Null THEN Num(0) ELSE v

\* getConnectionConstraint on the style of the edge's state
getConnectionConstraint(style, isSource) ==
    IF style[sideKey(isSource, "exitX", "entryX")] # Null
       /\ style[sideKey(isSource, "exitY", "entryY")] # Null
    THEN Constraint(Point(style[sideKey(isSource, "exitX", "entryX")],
                          style[sideKey(isSource, "exitY", "entryY")]),
                    style[sideKey(isSource, "exitPerimeter", "entryPerimeter")] # False,
                    finiteOrZero(style[sideKey(isSource, "exitDx", "entryDx")]),
                    finiteOrZero(style[sideKey(isSource, "exitDy", "entryDy")]))
    ELSE Constraint(Null, TRUE, Num(0), Num(0))

\* graph.isPortsEnabled, graph.isPort, graph.getTerminalForPort and
\* cell.getId
isPortsEnabled == config.portsEnabled
isPort(c) == c \in config.ports
getTerminalForPort(m, c, isSource) == getParent(m, c)
getId(c) == [id |-> c]

connectsPort(terminal) == isPortsEnabled /\ terminal # Nil /\ isPort(terminal)

\* the id of the port goes into the style of the edge
portStyled(m, edge, terminal, isSource) ==
    IF connectsPort(terminal)
    THEN updateCellsStyle(m, sideKey(isSource, "sourcePort", "targetPort"),
                          getId(terminal), << edge >>)
    ELSE m

\* the terminal the edge is attached to
portTerminal(m, terminal, isSource) ==
    IF connectsPort(terminal) THEN getTerminalForPort(m, terminal, isSource) ELSE terminal

\* cellConnectedToPort: the port itself stays the terminal
cellConnectedToPort(m, edge, terminal, isSource, constraint) ==
    IF m.level < 0 \/ edge = Nil THEN m
    ELSE endUpdate(trigger(
             resetOnConnect(
                 setTerminal(
                     portStyled(
                         setConnectionConstraint(beginUpdate(m), edge, terminal,
                                                 isSource, constraint),
                         edge, terminal, isSource),
                     edge, terminal, isSource),
                 edge),
             "cellConnected", << edge >>))

cellConnected(m, edge, terminal, isSource, constraint) ==
    IF m.level < 0 \/ edge = Nil THEN m
    ELSE endUpdate(trigger(
             resetOnConnect(
                 setTerminal(
                     portStyled(
                         setConnectionConstraint(beginUpdate(m), edge, terminal,
                                                 isSource, constraint),
                         edge, terminal, isSource),
                     edge, portTerminal(m, terminal, isSource), isSource),
                 edge),
             "cellConnected", << edge >>))

connectCell(m, edge, terminal, isSource, constraint) ==
    endUpdate(cellConnected(trigger(beginUpdate(m), "connectCell", << edge >>),
                            edge, terminal, isSource, constraint))

\* state.origin, or the zero point without a state
originOrZero(state) == IF state # Null THEN state.origin ELSE Point(0, 0)

\* cellsAdded with absolute: the cell keeps its location on the canvas when
\* it moves from a parent with origin o2 below a parent with origin o1
keepLocation(m, c, p, absolute) ==
    IF /\ absolute
       /\ getState(m, p) # Null
       /\ c # p
       /\ p # getParent(m, c)
       /\ getGeometry(m, c) # Null
    THEN setGeometry(m, c,
             clampNegative(m, c,
                 translate(getGeometry(m, c),
                     originOrZero(getState(m, getParent(m, c))).x - getState(m, p).origin.x,
                     originOrZero(getState(m, getParent(m, c))).y - getState(m, p).origin.y)))
    ELSE m

extendAdded(m, c, extend) ==
    IF extend /\ config.extendParentsOnAdd /\ isExtendParent(c)
    THEN extendParent(m, c) ELSE m

constrainAdded(m, c, constrain) ==
    IF constrain THEN constrainChild(m, c) ELSE m

connectAdded(m, c, terminal, isSource) ==
    IF terminal # Nil THEN cellConnected(m, c, terminal, isSource, Null) ELSE m

\* the steps of cellsAdded on one cell c once it is in its parent
cellAdded(m, c, a) ==
    connectAdded(
        connectAdded(
            constrainAdded(extendAdded(m, c, a.extend), c, a.constrain),
            c, a.source, TRUE),
        c, a.target, FALSE)

RECURSIVE cellsAddedLoop(_, _, _, _)
RECURSIVE cellsAddedAt(_, _, _, _)

\* the insertion of cell i at the running index; a holds the arguments of
\* cellsAdded.  i is one-based: i - 1 is the code's zero-based i.
cellsAddedAt(m, a, index, i) ==
    cellsAddedLoop(
        cellAdded(add(m, a.parent, a.cells[i], index + (i - 1)), a.cells[i], a),
        a, index, i + 1)

\* one round of the loop of cellsAdded
cellsAddedLoop(m, a, index, i) ==
    IF m.level < 0 \/ i > Len(a.cells) THEN m
    ELSE IF a.cells[i] = Nil THEN cellsAddedLoop(m, a, index - 1, i + 1)
    ELSE cellsAddedAt(keepLocation(m, a.cells[i], a.parent, a.absolute), a,
                      IF /\ a.parent = getParent(m, a.cells[i])
                         /\ index + (i - 1) > getChildCount(m, a.parent)
                      THEN index - 1 ELSE index,
                      i)

\* graph.autoSizeOnAdded is off.  An omitted constrain or extend argument
\* counts as true and is passed as TRUE by the callers.
cellsAdded(m, cells, p, index, sourceNode, targetNode, absolute, constrain, extend) ==
    IF m.level < 0 \/ cells = NoCells \/ p = Nil THEN m
    ELSE endUpdate(trigger(
             cellsAddedLoop(beginUpdate(m),
                            [ cells |-> cells, parent |-> p,
                              source |-> sourceNode, target |-> targetNode,
                              absolute |-> absolute, constrain |-> constrain,
                              extend |-> extend ],
                            index, 1),
             "cellsAdded", cells))

\* addCells running the loop of cellsAdded outside of any batch
addCellsUnbatched(m, cells, p, index, sourceNode, targetNode) ==
    trigger(cellsAddedLoop(trigger(m, "addCells", cells),
                           [ cells |-> cells, parent |-> p,
                             source |-> sourceNode, target |-> targetNode,
                             absolute |-> FALSE, constrain |-> TRUE, extend |-> TRUE ],
                           index, 1),
            "cellsAdded", cells)

addCells(m, cells, p, index, sourceNode, targetNode) ==
    endUpdate(cellsAdded(trigger(beginUpdate(m), "addCells", cells),
                         cells, p, index, sourceNode, targetNode, FALSE, TRUE, TRUE))

RECURSIVE getAllEdges(_, _)
getAllEdges(m, cells) ==
    IF cells = << >> THEN << >>
    ELSE cellEdges(m, Head(cells))
         \o getAllEdges(m, getChildren(m, Head(cells)))
         \o getAllEdges(m, Tail(cells))

addAllEdges(m, cells) == removeDuplicates(cells \o getAllEdges(m, cells))

\* the model point of the view point pt, relative to the point o
modelPoint(pt, o) ==
    Point((pt.x \div config.scale) - config.translate.x - o.x,
          (pt.y \div config.scale) - config.translate.y - o.y)

\* the geometry disconnectTerminal writes: the terminal point is taken from
\* the edge's rendered route, else from the terminal's rendered centre
frozenGeometry(geo, state, tstate, isSource) ==
    IF state # Null /\ state.absolutePoints # Null
    THEN setTerminalPoint(geo,
             modelPoint(state.absolutePoints[IF isSource THEN 1
                                             ELSE Len(state.absolutePoints)],
                        state.origin),
             isSource)
    ELSE IF tstate # Null
    THEN setTerminalPoint(geo, modelPoint(centerOf(tstate.bounds), Point(0, 0)), isSource)
    ELSE geo

disconnectTerminal(m, cell, edge, isSource) ==
    IF getGeometry(m, edge) = Null THEN m
    ELSE IF ~isAncestor(m, cell, getTerminal(m, edge, isSource)) THEN m
    ELSE setTerminal(
             setGeometry(m, edge,
                 frozenGeometry(getGeometry(m, edge), getState(m, edge),
                                getState(m, getTerminal(m, edge, isSource)), isSource)),
             edge, Nil, isSource)

\* the edges of one removed cell: each edge is handled once per call (dict)
RECURSIVE disconnectEdges(_, _, _, _)
disconnectEdges(m, dict, cell, edges) ==
    IF m.level < 0 \/ edges = << >> THEN [m |-> m, dict |-> dict]
    ELSE IF Head(edges) \in dict
    THEN disconnectEdges(m, dict, cell, Tail(edges))
    ELSE disconnectEdges(
             disconnectTerminal(disconnectTerminal(m, cell, Head(edges), TRUE),
                                cell, Head(edges), FALSE),
             dict \cup {Head(edges)}, cell, Tail(edges))

RECURSIVE cellsRemovedLoop(_, _, _)
RECURSIVE cellRemoved(_, _, _)

\* model.remove of a cell whose edges have been handled (r holds the store
\* and the dict), and the rest of the loop
cellRemoved(r, cell, rest) == cellsRemovedLoop(remove(r.m, cell), r.dict, rest)

cellsRemovedLoop(m, dict, cells) ==
    IF m.level < 0 \/ cells = << >> THEN m
    ELSE cellRemoved(disconnectEdges(m, dict, Head(cells), getAllEdges(m, << Head(cells) >>)),
                     Head(cells), Tail(cells))

cellsRemoved(m, cells) ==
    IF Len(cells) > 0
    THEN endUpdate(trigger(cellsRemovedLoop(beginUpdate(m), SeqToSet(cells), cells),
                           "cellsRemoved", cells))
    ELSE m

\* the cells removeCells removes: with includeEdges the deletable cells and
\* edges, otherwise the cells and their deletable edges that are not rendered
removingCells(m, cells, includeEdges) ==
    IF includeEdges THEN getDeletableCells(addAllEdges(m, cells))
    ELSE cells \o removeDuplicates(
             SelectSeq(getDeletableCells(getAllEdges(m, cells)),
                       LAMBDA e : getState(m, e) = Null /\ ~Contains(cells, e)))

removeListed(m, removing) ==
    endUpdate(cellsRemoved(trigger(beginUpdate(m), "removeCells", removing), removing))

\* cells.slice(), the spread of cells and cell.eachEdge fail on null
removeCells(m, cells, includeEdges) ==
    IF hasNull(cells) THEN throw(m)
    ELSE removeListed(m, removingCells(m, cells, includeEdges))

\* the lookup of c itself in dict, without the walk up its ancestors
inDictOnlySelf(m, dict, c) == IF c # Nil /\ c \in dict THEN c ELSE Nil

RECURSIVE inDict(_, _, _)
\* the walk up the ancestors of c until a cell of dict: Nil when there is none
inDict(m, dict, c) ==
    IF c = Nil THEN Nil
    ELSE IF c \in dict THEN c
    ELSE inDict(m, dict, getParent(m, c))

\* one side of an edge in disconnectGraph; r holds the store and the cloned
\* geometry.  The terminal is set to null when neither it nor an ancestor of
\* it is among the cells.
disconnectSide(r, dict, edge, pt, isSource) ==
    IF /\ getTerminal(r.m, edge, isSource) # Nil
       /\ isCellDisconnectable(edge, getTerminal(r.m, edge, isSource), isSource)
       /\ inDict(r.m, dict, getTerminal(r.m, edge, isSource)) = Nil
    THEN [ m |-> setTerminal(r.m, edge, Nil, isSource),
           geo |-> setTerminalPoint(r.geo, pt, isSource) ]
    ELSE r

\* the geometry is written after both sides have been handled
disconnectedEdge(r, edge) == setGeometry(r.m, edge, r.geo)

\* o is the negated origin of the parent's state: the points are stored
\* relative to the parent
disconnectEnds(m, dict, edge, pts, o) ==
    disconnectedEdge(
        disconnectSide(
            disconnectSide([m |-> m, geo |-> getGeometry(m, edge)], dict, edge,
                           modelPoint(pts[1], o), TRUE),
            dict, edge, modelPoint(pts[Len(pts)], o), FALSE),
        edge)

disconnectGraphEdge(m, dict, edge) ==
    IF \/ ~isEdge(edge)
       \/ getGeometry(m, edge) = Null
       \/ getState(m, edge) = Null
       \/ getState(m, getParent(m, edge)) = Null
    THEN m
    ELSE disconnectEnds(m, dict, edge, getState(m, edge).absolutePoints,
                        getState(m, getParent(m, edge)).origin)

RECURSIVE disconnectGraphLoop(_, _, _)
disconnectGraphLoop(m, dict, cells) ==
    IF m.level < 0 \/ cells = << >> THEN m
    ELSE disconnectGraphLoop(disconnectGraphEdge(m, dict, Head(cells)), dict, Tail(cells))

disconnectGraph(m, cells) ==
    endUpdate(disconnectGraphLoop(beginUpdate(m), SeqToSet(cells), cells))

-----------------------------------------------------------------------------
(* CellManager: alignment *)

\* the coordinate the first rendered cell gives
firstCoordinate(align, b) ==
    IF align = "center" THEN b.x + Half(b.width)
    ELSE IF align = "right" THEN b.x + b.width
    ELSE IF align = "top" THEN b.y
    ELSE IF align = "middle" THEN b.y + Half(b.height)
    ELSE IF align = "bottom" THEN b.y + b.height
    ELSE b.x

\* nextCoordinate that keeps the coordinate of the first rendered cell
nextCoordinateOfFirst(align, coord, b) == coord

\* the coordinate after a further rendered cell
nextCoordinate(align, coord, b) ==
    IF align = "right" THEN Max(coord, b.x + b.width)
    ELSE IF align = "top" THEN Min(coord, b.y)
    ELSE IF align = "bottom" THEN Max(coord, b.y + b.height)
    ELSE Min(coord, b.x)

\* the coordinate alignCells derives from the rendered cells; coord is << >>
\* while none has been found
RECURSIVE alignCoordinate(_, _, _, _)
alignCoordinate(m, align, cells, coord) ==
    IF cells = << >> THEN coord
    ELSE IF getState(m, Head(cells)) = Null \/ isEdge(Head(cells))
    THEN alignCoordinate(m, align, Tail(cells), coord)
    ELSE alignCoordinate(m, align, Tail(cells),
             << IF coord = << >>
                THEN firstCoordinate(align, getState(m, Head(cells)).bounds)
                ELSE nextCoordinate(align, coord[1], getState(m, Head(cells)).bounds) >>)

\* the bounds alignCells asks for: the geometry's bounds shifted to coord
alignedBounds(align, gb, bounds, coord) ==
    IF align = "center"
    THEN [gb EXCEPT !.x = @ + ((coord - bounds.x - Half(bounds.width)) \div config.scale)]
    ELSE IF align = "right"
    THEN [gb EXCEPT !.x = @ + ((coord - bounds.x - bounds.width) \div config.scale)]
    ELSE IF align = "top"
    THEN [gb EXCEPT !.y = @ + ((coord - bounds.y) \div config.scale)]
    ELSE IF align = "middle"
    THEN [gb EXCEPT !.y = @ + ((coord - bounds.y - Half(bounds.height)) \div config.scale)]
    ELSE IF align = "bottom"
    THEN [gb EXCEPT !.y = @ + ((coord - bounds.y - bounds.height) \div config.scale)]
    ELSE [gb EXCEPT !.x = @ + ((coord - bounds.x) \div config.scale)]

\* graph.resizeCell(cell, bounds)
resizeCell(m, cell, bounds) == resizeCells(m, << cell >>, << bounds >>)

alignCell(m, align, cell, coord) ==
    IF /\ getState(m, cell) # Null
       /\ coord # << >>
       /\ getGeometry(m, cell) # Null
       /\ ~isEdge(cell)
    THEN resizeCell(m, cell,
             alignedBounds(align, getGeometry(m, cell).bounds,
                           getState(m, cell).bounds, coord[1]))
    ELSE m

RECURSIVE alignLoop(_, _, _, _)
alignLoop(m, align, cells, coord) ==
    IF m.level < 0 \/ cells = << >> THEN m
    ELSE alignLoop(alignCell(m, align, Head(cells), coord), align, Tail(cells), coord)

\* param is << >> when no coordinate is given; the alignCells event is
\* emitted after the batch has ended
alignCells(m, align, cells, param) ==
    IF Len(cells) > 1
    THEN trigger(endUpdate(alignLoop(beginUpdate(m), align, cells,
                               IF param = << >>
                               THEN alignCoordinate(m, align, cells, << >>)
                               ELSE param)),
                 "alignCells", cells)
    ELSE m

-----------------------------------------------------------------------------
(* CellManager: folding *)

\* Numbers are IEEE floating-point numbers in the code.  Where rounding
\* decides the result (the rotation of the alternate bounds) they are
\* modelled as floating-point numbers with a mantissa of MantissaBits bits.
MantissaBits == 8

RECURSIVE ulpOf(_, _)
\* the spacing of the floating-point numbers at the magnitude a, from u up
ulpOf(a, u) == IF a < u * (2 ^ MantissaBits) THEN u ELSE ulpOf(a, 2 * u)

\* the multiple of the spacing u nearest to the magnitude a / d, ties to even
nearest(a, d, u) ==
    u * (IF 2 * (a % (d * u)) > d * u
            \/ (2 * (a % (d * u)) = d * u /\ (a \div (d * u)) % 2 = 1)
         THEN (a \div (d * u)) + 1
         ELSE a \div (d * u))

\* the floating-point number nearest to n / d, for d > 0
fround(n, d) ==
    IF n < 0 THEN 0 - nearest(0 - n, d, ulpOf((0 - n) \div d, 1))
    ELSE nearest(n, d, ulpOf(n \div d, 1))

\* Math.cos and Math.sin of util.toRad(deg), in units of 1 / TrigUnit, for
\* rotations by 45 degrees and by quarter turns (whose sine and cosine are
\* taken as 0, 1 or -1)
TrigUnit == 2 ^ 10
cosOf(deg) ==
    IF deg % 360 = 45 THEN 724
    ELSE IF deg % 360 = 0 THEN TrigUnit
    ELSE IF deg % 360 = 180 THEN 0 - TrigUnit
    ELSE 0
sinOf(deg) ==
    IF deg % 360 = 45 THEN 724
    ELSE IF deg % 360 = 90 THEN TrigUnit
    ELSE IF deg % 360 = 270 THEN 0 - TrigUnit
    ELSE 0

\* style.rotation || 0 and style.startSize || 0 of the cell
getRotation(c) == config.rotation[c]
getStyleStartSize(c) == IF c \in config.swimlanes THEN config.startSize.height ELSE 0

\* getCellPreferredSize: the size of the cell's label, null for an edge
getCellPreferredSize(c) ==
    IF c = Nil \/ isEdge(c) THEN Null
    ELSE Rectangle(0, 0, config.preferredSize.width, config.preferredSize.height)

\* Geometry.swap: exchanges bounds and alternateBounds when there are both
swap(geo) ==
    IF geo.alternateBounds = Null THEN geo
    ELSE [geo EXCEPT !.bounds = geo.alternateBounds, !.alternateBounds = geo.bounds]

\* the size of the alternate bounds created on the first collapse
alternateSize(c, bounds, tmp) ==
    IF config.collapseToPreferredSize /\ tmp # Null
    THEN [tmp EXCEPT !.height = IF getStyleStartSize(c) > 0
                                THEN Max(@, getStyleStartSize(c)) ELSE @]
    ELSE bounds

\* dx2 - dx and dy2 - dy: the move of the alternate bounds that rotates the
\* offset (dx, dy) of its centre from the centre of the bounds
rotatedBy(ab, cos, sin, dx, dy) ==
    [ab EXCEPT
       !.x = fround(@ + fround(fround(fround(cos * dx, TrigUnit)
                                        - fround(sin * dy, TrigUnit), 1) - dx, 1), 1),
       !.y = fround(@ + fround(fround(fround(sin * dx, TrigUnit)
                                        + fround(cos * dy, TrigUnit), 1) - dy, 1), 1)]

\* the alternate bounds pinned to the top left corner of the bounds, and
\* moved around the centre of the bounds for a rotated cell
pinnedAlternate(c, b, ab) ==
    IF getRotation(c) = 0 THEN [ab EXCEPT !.x = b.x, !.y = b.y]
    ELSE rotatedBy([ab EXCEPT !.x = b.x, !.y = b.y],
                   cosOf(getRotation(c)), sinOf(getRotation(c)),
                   fround(fround(b.x + Half(ab.width), 1)
                              - fround(b.x + Half(b.width), 1), 1),
                   fround(fround(b.y + Half(ab.height), 1)
                              - fround(b.y + Half(b.height), 1), 1))

\* updateAlternateBounds(cell, geo, willCollapse)
updateAlternateBounds(c, geo, willCollapse) ==
    IF c = Nil \/ geo = Null THEN geo
    ELSE [geo EXCEPT !.alternateBounds =
             pinnedAlternate(c, geo.bounds,
                 IF @ # Null THEN @
                 ELSE Rectangle(0, 0,
                          alternateSize(c, geo.bounds, getCellPreferredSize(c)).width,
                          alternateSize(c, geo.bounds, getCellPreferredSize(c)).height))]

swapBounds(m, c, willCollapse) ==
    IF c = Nil \/ getGeometry(m, c) = Null THEN m
    ELSE setGeometry(m, c, swap(updateAlternateBounds(c, getGeometry(m, c), willCollapse)))

\* graph.isFoldable: a cell with children can be folded
isFoldable(m, c, collapse) == getChildCount(m, c) > 0

RECURSIVE cellsFolded(_, _, _, _, _)
RECURSIVE foldLoop(_, _, _, _, _)

\* the recursion of cellsFolded into the children of a folded cell
foldChildren(m, c, collapse, recurse) ==
    IF recurse THEN cellsFolded(m, getChildren(m, c), collapse, recurse, FALSE) ELSE m

\* cellFolded folding a cell that is in the state asked for already
cellFoldedAgain(m, c, collapse, recurse, checkFoldable) ==
    IF ~checkFoldable \/ isFoldable(m, c, collapse)
    THEN constrainChild(
             foldChildren(
                 extendResized(swapBounds(setCollapsed(m, c, collapse), c, collapse), c),
                 c, collapse, recurse),
             c)
    ELSE m

\* the body of the loop of cellsFolded for one cell
cellFolded(m, c, collapse, recurse, checkFoldable) ==
    IF (~checkFoldable \/ isFoldable(m, c, collapse)) /\ collapse # isCellCollapsed(m, c)
    THEN constrainChild(
             foldChildren(
                 extendResized(swapBounds(setCollapsed(m, c, collapse), c, collapse), c),
                 c, collapse, recurse),
             c)
    ELSE m

foldLoop(m, cells, collapse, recurse, checkFoldable) ==
    IF m.level < 0 \/ cells = << >> THEN m
    ELSE foldLoop(cellFolded(m, Head(cells), collapse, recurse, checkFoldable),
                  Tail(cells), collapse, recurse, checkFoldable)

cellsFolded(m, cells, collapse, recurse, checkFoldable) ==
    IF cells = << >> THEN m
    ELSE trigger(endUpdate(foldLoop(beginUpdate(m), cells, collapse, recurse, checkFoldable)),
                 "cellsFolded", cells)

foldCells(m, collapse, recurse, cells, checkFoldable) ==
    endUpdate(cellsFolded(trigger(beginUpdate(m), "foldCells", cells),
                          cells, collapse, recurse, checkFoldable))

-----------------------------------------------------------------------------
(* CellManager: connection points.  The lengths of this section are in     *)
(* halves of a device unit, so that centres and Math.round are exact.      *)


\* view.getPerimeterBounds: the bounds of the state
getPerimeterBounds(state) ==
    Rectangle(2 * state.bounds.x, 2 * state.bounds.y,
              2 * state.bounds.width, 2 * state.bounds.height)

\* Rectangle.rotate90: a quarter turn of the rectangle around its centre
rotate90(b) ==
    Rectangle(b.x + (b.width - b.height) \div 2, b.y - (b.width - b.height) \div 2,
              b.height, b.width)

\* util.rotatePoint: pt turned around c
rotatePoint(pt, cos, sin, c) ==
    Point(((pt.x - c.x) * cos - (pt.y - c.y) * sin) \div TrigUnit + c.x,
          ((pt.y - c.y) * cos + (pt.x - c.x) * sin) \div TrigUnit + c.y)

\* the outline point of the rectangle b on the ray from its centre through
\* next, d being next minus the centre; the outline has no point for the
\* centre itself, which is sent to the middle of the right side (a flat
\* rectangle has dy = 0 on its bottom side)
rectanglePerimeter(b, dx, dy) ==
    IF dx = 0 /\ dy = 0 THEN Point(b.x + b.width, getCenterY(b))
    ELSE IF dx < 0 /\ dy * b.width < (0 - dx) * b.height /\ (0 - dy) * b.width < (0 - dx) * b.height
    THEN Point(b.x, getCenterY(b) - (b.width * dy) \div (2 * dx))
    ELSE IF dy < 0 /\ (dx <= 0 \/ (0 - dy) * b.width > dx * b.height)
    THEN Point(getCenterX(b) - (b.height * dx) \div (2 * dy), b.y)
    ELSE IF dx > 0 /\ dy * b.width < dx * b.height
    THEN Point(b.x + b.width, getCenterY(b) + (b.width * dy) \div (2 * dx))
    ELSE Point(getCenterX(b) + (IF dy = 0 THEN 0 ELSE (b.height * dx) \div (2 * dy)),
               b.y + b.height)

\* view.getPerimeterPoint(state, next): next projected on the outline
getPerimeterPoint(b, next) ==
    rectanglePerimeter(b, next.x - getCenterX(b), next.y - getCenterY(b))

\* the quarter turns of the style direction of the terminal
directionTurn(direction) ==
    IF direction = "north" THEN 270
    ELSE IF direction = "west" THEN 180
    ELSE IF direction = "south" THEN 90
    ELSE 0

\* the bounds the fractional point is applied to
directedBounds(b, direction) ==
    IF direction \in {"north", "south"} THEN rotate90(b) ELSE b

\* the point of the constraint in the bounds b, with its pixel offset
anchor(b, constraint) ==
    Point(b.x + (numberOf(constraint.point.x) * b.width) \div 2
              + 2 * numberOf(constraint.dx) * config.scale,
          b.y + (numberOf(constraint.point.y) * b.height) \div 2
              + 2 * numberOf(constraint.dy) * config.scale)

\* a constraint on the perimeter: the turn of the direction, then the projection
snapped(b0, pt, r1) ==
    getPerimeterPoint(b0, IF r1 # 0
                          THEN rotatePoint(pt, cosOf(r1), sinOf(r1), centerOf(b0))
                          ELSE pt)

\* mirrorOffCentre: the mirror image taken from the centre instead of twice the centre
mirrorOffCentre(v, centre) == centre - v

\* 2 * centre - v: the mirror image of the coordinate v
mirror(v, centre) == 2 * centre - v

\* a constraint off the perimeter: a node's flips mirror the point
flipped(terminal, b, pt) ==
    IF isNode(terminal)
    THEN Point(IF config.flipH THEN mirror(pt.x, getCenterX(b)) ELSE pt.x,
               IF config.flipV THEN mirror(pt.y, getCenterY(b)) ELSE pt.y)
    ELSE pt

\* the rotation of the style, applied around the centre cx
turned(pt, r2, cx) ==
    IF r2 # 0 THEN rotatePoint(pt, cosOf(r2), sinOf(r2), cx) ELSE pt

\* Math.round of both coordinates
rounded(pt, round) ==
    IF round THEN Point(2 * ((pt.x + 1) \div 2), 2 * ((pt.y + 1) \div 2)) ELSE pt

\* getConnectionPoint for a rendered terminal with perimeter bounds b0
connectionPoint(terminal, b0, direction, constraint, round) ==
    rounded(
        IF constraint.perimeter
        THEN turned(snapped(b0, anchor(directedBounds(b0, direction), constraint),
                            directionTurn(direction)),
                    getRotation(terminal), centerOf(b0))
        ELSE turned(flipped(terminal, directedBounds(b0, direction),
                            anchor(directedBounds(b0, direction), constraint)),
                    getRotation(terminal) + directionTurn(direction), centerOf(b0)),
        round)

\* getConnectionPoint(terminalState, constraint, round), terminalState being
\* the state of terminal
getConnectionPoint(m, terminal, constraint, round) ==
    IF getState(m, terminal) = Null \/ constraint.point = Null THEN Null
    ELSE connectionPoint(terminal, getPerimeterBounds(getState(m, terminal)),
                         config.direction, constraint, round)

-----------------------------------------------------------------------------
(* CellManager: moving and grouping *)

\* translateCell on a relative node: the offset moves, turned back by the
\* rotation of a parent node
movedOffset(off, d) ==
    IF off = Null THEN d ELSE Point(off.x + d.x, off.y + d.y)

offsetDelta(m, cell, dx, dy) ==
    IF isNode(getParent(m, cell)) /\ getRotation(getParent(m, cell)) # 0
    THEN rotatePoint(Point(dx, dy), cosOf(360 - getRotation(getParent(m, cell))),
                     sinOf(360 - getRotation(getParent(m, cell))), Point(0, 0))
    ELSE Point(dx, dy)

translatedGeometry(m, cell, geo, dx, dy) ==
    IF geo.relative /\ ~isEdge(cell)
    THEN [geo EXCEPT !.offset = movedOffset(@, offsetDelta(m, cell, dx, dy))]
    ELSE geo

\* translateCellInPlace: the geometry of the store is moved without a clone
\* and without setGeometry
translateCellInPlace(m, cell, dx, dy) ==
    IF getGeometry(m, cell) = Null THEN m
    ELSE [m EXCEPT !.geometry[cell] =
             translatedGeometry(m, cell,
                 clampNegative(m, cell, translate(getGeometry(m, cell), dx, dy)),
                 dx, dy)]

translateCell(m, cell, dx, dy) ==
    IF getGeometry(m, cell) = Null THEN m
    ELSE setGeometry(m, cell,
             translatedGeometry(m, cell,
                 clampNegative(m, cell, translate(getGeometry(m, cell), dx, dy)),
                 dx, dy))

\* one cell of cellsMoved
cellMoved(m, cell, constrain, extend) ==
    IF extend /\ isExtendParent(cell) THEN extendParent(m, cell)
    ELSE IF constrain THEN constrainChild(m, cell)
    ELSE m

RECURSIVE cellsMovedLoop(_, _, _, _, _, _)
cellsMovedLoop(m, cells, dx, dy, constrain, extend) ==
    IF m.level < 0 \/ cells = << >> THEN m
    ELSE cellsMovedLoop(
             cellMoved(translateCell(m, Head(cells), dx, dy), Head(cells), constrain, extend),
             Tail(cells), dx, dy, constrain, extend)

\* graph.resetEdgesOnMove is off
cellsMoved(m, cells, dx, dy, disconnect, constrain, extend) ==
    IF m.level >= 0 /\ (dx # 0 \/ dy # 0)
    THEN endUpdate(trigger(
             cellsMovedLoop(IF disconnect THEN disconnectGraph(beginUpdate(m), cells)
                            ELSE beginUpdate(m),
                            cells, dx, dy, constrain, extend),
             "cellsMoved", cells))
    ELSE m

\* model.getTopmostCells: the cells that have no ancestor among the cells
getTopmostCells(m, cells) ==
    SelectSeq(cells, LAMBDA c : inDict(m, SeqToSet(cells), getParent(m, c)) = Nil)

\* a relative label of an edge does not move with a terminal of its edge
isMovable(m, dict, c) ==
    \/ getGeometry(m, c) = Null
    \/ ~getGeometry(m, c).relative
    \/ ~isEdge(getParent(m, c))
    \/ /\ inDict(m, dict, getTerminal(m, getParent(m, c), TRUE)) = Nil
       /\ inDict(m, dict, getTerminal(m, getParent(m, c), FALSE)) = Nil

\* the end of moveCells: the option is set back, the cells go to the newParent
\* movedInto without the restored setting
movedIntoForced(m, cells, newParent, previous) ==
    IF newParent # Nil
    THEN cellsAdded(m, cells, newParent, getChildCount(m, newParent), Nil, Nil, TRUE, TRUE, TRUE)
    ELSE m

movedInto(m, cells, newParent, previous) ==
    IF newParent # Nil
    THEN cellsAdded([m EXCEPT !.allowNegativeCoordinates = previous],
                    cells, newParent, getChildCount(m, newParent), Nil, Nil, TRUE, TRUE, TRUE)
    ELSE [m EXCEPT !.allowNegativeCoordinates = previous]

\* the batch of moveCells on the cells that are moved
moveChecked(m, cells, dx, dy, newParent) ==
    movedInto(
        cellsMoved(trigger([m EXCEPT !.allowNegativeCoordinates = (@ \/ newParent # Nil)],
                           "moveCells", cells),
                   cells, dx, dy, config.disconnectOnMove, newParent = Nil,
                   config.extendParentsOnMove /\ newParent = Nil),
        cells, newParent, m.allowNegativeCoordinates)

\* moveCells without clone
moveCells(m, cells, dx, dy, newParent) ==
    IF dx # 0 \/ dy # 0 \/ newParent # Nil
    THEN endUpdate(moveChecked(beginUpdate(m),
             SelectSeq(getTopmostCells(m, cells),
                       LAMBDA c : isMovable(m, SeqToSet(getTopmostCells(m, cells)), c)),
             dx, dy, newParent))
    ELSE m

\* getCellsForGroup: the first cell and the cells with the same parent
getCellsForGroup(m, cells) ==
    IF cells = << >> THEN << >>
    ELSE SelectSeq(cells, LAMBDA c : c = cells[1] \/ getParent(m, c) = getParent(m, cells[1]))

RECURSIVE siblingBoxes(_, _, _)
\* graph.getBoundingBoxFromGeometry(cells, true) for cells none of which is
\* the parent of another: the union of the nodes' bounds in their parents'
\* frames (the edges have no waypoints)
siblingBoxes(m, cs, acc) ==
    IF cs = << >> THEN acc
    ELSE siblingBoxes(m, Tail(cs), addBox(acc, nodeBox(m, Head(cs), Head(cs))))

grownBy(b, left, top, border) ==
    IF b = Null THEN Null
    ELSE Rectangle(b.x - left - border, b.y - top - border,
                   b.width + left + 2 * border, b.height + top + 2 * border)

getBoundsForGroup(m, group, cells, border) ==
    IF isSwimlane(group)
    THEN grownBy(siblingBoxes(m, cells, Null), getStartSize(group).width,
                 getStartSize(group).height, border)
    ELSE grownBy(siblingBoxes(m, cells, Null), 0, 0, border)

\* new Geometry() for a group without geometry
ensureGeometry(m, group) ==
    IF getGeometry(m, group) = Null THEN setGeometry(m, group, Geometry(0, 0, 0, 0)) ELSE m

groupInto(m, group, p) ==
    cellsAdded(m, << group >>, p, getChildCount(m, p), Nil, Nil, FALSE, FALSE, FALSE)

groupChildren(m, group, cells, bounds) ==
    cellsResized(
        cellsMoved(
            cellsAdded(m, cells, group, getChildCount(m, group), Nil, Nil, FALSE, FALSE, FALSE),
            cells, 0 - bounds.x, 0 - bounds.y, FALSE, FALSE, FALSE),
        << group >>, << bounds >>)

\* the batch of groupCells; p is the parent of the group, or the parent of
\* the first cell
grouped(m, group, border, cells, bounds, p) ==
    IF cells = << >> \/ bounds = Null THEN m
    ELSE endUpdate(trigger(
             groupChildren(groupInto(ensureGeometry(beginUpdate(m), group), group, p),
                           group, cells, bounds),
             "groupCells", cells))

\* the parent of the group, or the parent of the first cell
groupParent(m, group, cells) ==
    IF getParent(m, group) # Nil THEN getParent(m, group)
    ELSE getParent(m, Head(cells \o << Nil >>))

\* groupCells with a group cell given
groupCells(m, group, border, cells) ==
    grouped(m, group, border, getCellsForGroup(m, cells),
            getBoundsForGroup(m, group, getCellsForGroup(m, cells), border),
            groupParent(m, group, getCellsForGroup(m, cells)))

RECURSIVE ungroupLoop(_, _)
ungroupLoop(m, cells) ==
    IF m.level < 0 \/ cells = << >> THEN m
    ELSE ungroupLoop(
             IF getChildCount(m, Head(cells)) > 0
             THEN cellsAdded(m, getChildren(m, Head(cells)), getParent(m, Head(cells)),
                             getChildCount(m, getParent(m, Head(cells))),
                             Nil, Nil, TRUE, TRUE, TRUE)
             ELSE m,
             Tail(cells))

removeGroupsAfterUngroup(m, cells) == cellsRemoved(m, addAllEdges(m, cells))

\* ungroupCells with the cells given
ungroupCells(m, cells) ==
    IF Len(cells) > 0
    THEN endUpdate(trigger(removeGroupsAfterUngroup(ungroupLoop(beginUpdate(m), cells), cells),
                           "ungroupCells", cells))
    ELSE m

\* graph.getDefaultParent() is the root layer
removeCellsFromParent(m, cells) ==
    endUpdate(trigger(
        cellsAdded(beginUpdate(m), cells, Root, getChildCount(m, Root),
                   Nil, Nil, TRUE, TRUE, TRUE),
        "removeCellsFromParent", cells))

\* graph.getChildCells: the visible children
getChildCells(m, c) == SelectSeq(getChildren(m, c), LAMBDA k : isCellVisible(m, k))

\* the geometry updateGroupBounds writes for a group around the box of its
\* children (Math.round leaves whole numbers as they are)
groupBounds(geo, b, border, left, top, moveGroup) ==
    [geo EXCEPT !.bounds =
        Rectangle(IF moveGroup THEN @.x + b.x - border - left ELSE @.x,
                  IF moveGroup THEN @.y + b.y - border - top ELSE @.y,
                  b.width + 2 * border + left,
                  b.height + 2 * border + top)]

groupFitted(m, cell, b, border, left, top, moveGroup) ==
    IF b = Null \/ b.width <= 0 \/ b.height <= 0 THEN m
    ELSE moveCells(
             setGeometry(m, cell,
                 groupBounds(getGeometry(m, cell), b, border, left, top, moveGroup)),
             getChildCells(m, cell), border + left - b.x, border + top - b.y, Nil)

updateGroup(m, cell, border, moveGroup) ==
    IF getGeometry(m, cell) = Null \/ getChildCells(m, cell) = << >> THEN m
    ELSE groupFitted(m, cell, siblingBoxes(m, getChildCells(m, cell), Null), border,
                     IF isSwimlane(cell) THEN getStartSize(cell).width ELSE 0,
                     IF isSwimlane(cell) THEN getStartSize(cell).height ELSE 0,
                     moveGroup)

RECURSIVE updateGroupLoop(_, _, _, _, _)
\* the loop runs from the last cell to the first
updateGroupLoop(m, cells, i, border, moveGroup) ==
    IF m.level < 0 \/ i < 1 THEN m
    ELSE updateGroupLoop(updateGroup(m, cells[i], border, moveGroup),
                         cells, i - 1, border, moveGroup)

\* updateGroupBounds with the four side borders left at 0
updateGroupBounds(m, cells, border, moveGroup) ==
    endUpdate(updateGroupLoop(beginUpdate(m), cells, Len(cells), border, moveGroup))

-----------------------------------------------------------------------------
(* CellManager: order, visibility and splitting *)

RECURSIVE orderLoop(_, _, _, _)
\* i is one-based: i - 1 is the code's index i
\* orderLoop moving every cell to the first place
orderLoopToFirst(m, cells, toBack, i) ==
    IF m.level < 0 \/ i > Len(cells) THEN m
    ELSE orderLoop(add(m, getParent(m, cells[i]), cells[i],
                       IF toBack THEN 0
                       ELSE getChildCount(m, getParent(m, cells[i])) - 1),
                   cells, toBack, i + 1)

orderLoop(m, cells, toBack, i) ==
    IF m.level < 0 \/ i > Len(cells) THEN m
    ELSE orderLoop(add(m, getParent(m, cells[i]), cells[i],
                       IF toBack THEN i - 1
                       ELSE getChildCount(m, getParent(m, cells[i])) - 1),
                   cells, toBack, i + 1)

cellsOrdered(m, cells, toBack) ==
    IF cells = NoCells THEN m
    ELSE endUpdate(trigger(orderLoop(beginUpdate(m), cells, toBack, 1),
                           "cellsOrdered", cells))

orderCells(m, toBack, cells) ==
    endUpdate(cellsOrdered(trigger(beginUpdate(m), "orderCells", cells), cells, toBack))

RECURSIVE setVisibleAll(_, _, _)
\* model.setVisible leaves a null cell alone
setVisibleAll(m, cells, show) ==
    IF m.level < 0 \/ cells = << >> THEN m
    ELSE setVisibleAll(IF Head(cells) = Nil THEN m ELSE setVisible(m, Head(cells), show),
                       Tail(cells), show)

setCellsVisibleImpl(m, cells, show) ==
    IF cells # NoCells /\ Len(cells) > 0
    THEN endUpdate(setVisibleAll(beginUpdate(m), cells, show))
    ELSE m

toggled(m, arr, show) ==
    endUpdate(setCellsVisibleImpl(trigger(beginUpdate(m), "toggleCells", arr), arr, show))

\* addAllEdges fails on a null array and on a null cell
toggleCells(m, show, cells, includeEdges) ==
    IF includeEdges
    THEN IF hasNull(cells) THEN throw(m) ELSE toggled(m, addAllEdges(m, cells), show)
    ELSE toggled(m, cells, show)

\* cellsAdded at the end of the children of p
appended(m, cells, p, sourceNode, targetNode, absolute) ==
    cellsAdded(m, cells, p, getChildCount(m, p), sourceNode, targetNode, absolute, TRUE, TRUE)

\* the batch of splitEdge; first is cells[0], Nil for an empty list
splitAt(m, edge, cells, first, newEdge, dx, dy, p, src) ==
    cellConnected(
        appended(appended(cellsMoved(m, cells, dx, dy, FALSE, FALSE, FALSE),
                          cells, p, Nil, Nil, TRUE),
                 << newEdge >>, p, src, first, FALSE),
        edge, first, TRUE, Null)

\* splitEdge with the new edge given
splitEdge(m, edge, cells, newEdge, dx, dy) ==
    endUpdate(trigger(
        splitAt(beginUpdate(m), edge, cells, Head(cells \o << Nil >>), newEdge, dx, dy,
                getParent(m, edge), getTerminal(m, edge, TRUE)),
        "splitEdge", cells))

\* cloneCells for one edge whose terminals are not cloned with it: where the
\* edge and its parent are rendered the ends of the route become the terminal
\* points of the clone and its waypoints are shifted by the parent's origin
clonedGeometry(geo, state, pstate) ==
    IF geo = Null \/ state = Null \/ pstate = Null THEN geo
    ELSE [geo EXCEPT
             !.sourcePoint = modelPoint(state.absolutePoints[1], Point(0, 0)),
             !.targetPoint = modelPoint(state.absolutePoints[Len(state.absolutePoints)],
                                        Point(0, 0)),
             !.points = [ i \in DOMAIN @ |-> Point(@[i].x + pstate.origin.x,
                                                   @[i].y + pstate.origin.y) ]]

\* graph.cloneCell: the clone is a cell outside the model, with the style of
\* the edge and no terminals
cloneCell(m, edge, clone) ==
    [m EXCEPT !.geometry[clone] = clonedGeometry(getGeometry(m, edge), getState(m, edge),
                                                 getState(m, getParent(m, edge))),
              !.style[clone] = getStyle(m, edge),
              !.source[clone] = Nil,
              !.target[clone] = Nil,
              !.collapsed[clone] = m.collapsed[edge],
              !.visible[clone] = m.visible[edge]]

\* the waypoints before idx stay with the clone, the others with the edge
slicedBefore(geo, idx) == [geo EXCEPT !.points = SubSeq(@, 1, Min(idx, Len(@)))]
slicedFrom(geo, idx) == [geo EXCEPT !.points = SubSeq(@, Min(idx, Len(@)) + 1, Len(@))]

\* the waypoints of an edge with a state are divided at the segment idx
\* that findNearestSegment returns
splitPoints(m, edge, clone, idx) ==
    IF getGeometry(m, clone) # Null /\ getState(m, edge) # Null
    THEN IF getGeometry(m, edge) # Null
         THEN setGeometry([m EXCEPT !.geometry[clone] = slicedBefore(@, idx)],
                          edge, slicedFrom(getGeometry(m, edge), idx))
         ELSE [m EXCEPT !.geometry[clone] = slicedBefore(@, idx)]
    ELSE m

\* splitEdge without a new edge: the edge is cloned, clone names the new cell
splitEdgeCloned(m, edge, cells, clone, idx, dx, dy) ==
    IF m.level < 0 THEN m
    ELSE endUpdate(trigger(
             splitAt(splitPoints(cloneCell(beginUpdate(m), edge, clone), edge, clone, idx),
                     edge, cells, Head(cells \o << Nil >>), clone, dx, dy,
                     getParent(m, edge), getTerminal(m, edge, TRUE)),
             "splitEdge", cells))

\* the style flipEdge writes: the style of the cell is null (Null), or an
\* object that is written back as the empty object {} (NoStyle)
flippedStyle(style) == IF style = Null THEN config.alternateEdgeStyle ELSE NoStyle

flipEdge(m, edge) ==
    IF edge # Nil /\ config.alternateEdgeStyle # Null
    THEN endUpdate(trigger(
             resetEdge(setStyle(beginUpdate(m), edge, flippedStyle(getStyle(m, edge))), edge),
             "flipEdge", << edge >>))
    ELSE m

-----------------------------------------------------------------------------
(* CellManager: queries on the edges and the hierarchy *)

\* view.getVisibleTerminal: the outermost ancestor of the terminal that is
\* collapsed or has a hidden cell right below it on the way, else the
\* terminal itself
RECURSIVE visibleAbove(_, _, _)
visibleAbove(m, best, terminal) ==
    IF terminal = Nil \/ terminal = Root THEN best
    ELSE visibleAbove(m,
                      IF ~isCellVisible(m, best) \/ isCellCollapsed(m, terminal)
                      THEN terminal ELSE best,
                      getParent(m, terminal))

getVisibleTerminal(m, edge, isSource) ==
    visibleAbove(m, getTerminal(m, edge, isSource), getTerminal(m, edge, isSource))

\* model.getEdges(cell, incoming, outgoing): loops are always included
modelEdges(m, c, incoming, outgoing) ==
    SelectSeq(cellEdges(m, c),
              LAMBDA e : \/ m.source[e] = m.target[e]
                         \/ incoming /\ m.target[e] = c
                         \/ outgoing /\ m.source[e] = c)

isValidAncestor(m, cell, p, recurse) ==
    IF recurse THEN cell # Nil /\ isAncestor(m, p, cell) ELSE getParent(m, cell) = p

\* the edges of the children of a collapsed node and of its hidden children
RECURSIVE hiddenChildEdges(_, _, _, _, _)
hiddenChildEdges(m, node, kids, incoming, outgoing) ==
    IF kids = << >> THEN << >>
    ELSE (IF isCellCollapsed(m, node) \/ ~isCellVisible(m, Head(kids))
          THEN modelEdges(m, Head(kids), incoming, outgoing) ELSE << >>)
         \o hiddenChildEdges(m, node, Tail(kids), incoming, outgoing)

\* the test of getEdges on one collected edge with visible terminals s and t
edgeListed(m, s, t, node, p, incoming, outgoing, includeLoops, recurse) ==
    IF s = t THEN includeLoops
    ELSE \/ incoming /\ t = node /\ (p = Nil \/ isValidAncestor(m, s, p, recurse))
         \/ outgoing /\ s = node /\ (p = Nil \/ isValidAncestor(m, t, p, recurse))

getEdges(m, node, p, incoming, outgoing, includeLoops, recurse) ==
    SelectSeq(hiddenChildEdges(m, node, getChildren(m, node), incoming, outgoing)
                  \o modelEdges(m, node, incoming, outgoing),
              LAMBDA e : edgeListed(m, getVisibleTerminal(m, e, TRUE),
                                    getVisibleTerminal(m, e, FALSE),
                                    node, p, incoming, outgoing, includeLoops, recurse))

\* graph.getConnections(cell, parent): the edges of the cell without loops
getConnections(m, cell, p) == getEdges(m, cell, p, TRUE, TRUE, FALSE, FALSE)

\* the connections whose visible source is the cell
fanOut(m, cell, conns) ==
    Cardinality({ i \in DOMAIN conns : getVisibleTerminal(m, conns[i], TRUE) = cell })

fanIn(m, cell, conns) == Len(conns) - fanOut(m, cell, conns)

\* fan-out less fan-in, or the reverse when inverted
fanDiff(m, cell, conns, invert) ==
    IF invert THEN fanIn(m, cell, conns) - fanOut(m, cell, conns)
    ELSE fanOut(m, cell, conns) - fanIn(m, cell, conns)

isTreeRoot(m, cell, conns, invert) ==
    \/ invert /\ fanOut(m, cell, conns) = 0 /\ fanIn(m, cell, conns) > 0
    \/ ~invert /\ fanIn(m, cell, conns) = 0 /\ fanOut(m, cell, conns) > 0

\* the loop of findTreeRoots over the children, with the roots found, the
\* best cell and the greatest difference so far
RECURSIVE treeRootsLoop(_, _, _, _, _, _, _)
treeRootsLoop(m, kids, scope, invert, roots, best, maxDiff) ==
    IF kids = << >>
    THEN IF roots = << >> /\ best # Nil THEN << best >> ELSE roots
    ELSE IF isNode(Head(kids)) /\ isCellVisible(m, Head(kids))
    THEN treeRootsLoop(
             m, Tail(kids), scope, invert,
             IF isTreeRoot(m, Head(kids), getConnections(m, Head(kids), scope), invert)
             THEN Append(roots, Head(kids)) ELSE roots,
             IF fanDiff(m, Head(kids), getConnections(m, Head(kids), scope), invert) > maxDiff
             THEN Head(kids) ELSE best,
             Max(maxDiff, fanDiff(m, Head(kids), getConnections(m, Head(kids), scope), invert)))
    ELSE treeRootsLoop(m, Tail(kids), scope, invert, roots, best, maxDiff)

findTreeRoots(m, p, isolate, invert) ==
    treeRootsLoop(m, getChildren(m, p), IF isolate THEN p ELSE Nil, invert,
                  << >>, Nil, 0)

\* the visitor of a traversal returns false on the nodes of stops; the walk
\* t holds the visited nodes and the calls of the visitor in their order
NoWalk == [visited |-> {}, log |-> << >>]

visit(t, node, edge) ==
    [visited |-> t.visited \cup {node},
     log |-> Append(t.log, [node |-> node, edge |-> edge])]

\* the walk goes on below a node unless the visitor returned false
continuesAlways(node, stops) == TRUE

continues(node, stops) == node \notin stops

\* every edge is followed, whatever the direction
followsAny(m, node, edge, directed, inverse) == TRUE

\* the edge of the node is followed: any edge when undirected, else the
\* outgoing ones, or the incoming ones when inverse
follows(m, node, edge, directed, inverse) ==
    ~directed \/ ((~inverse) = (getTerminal(m, edge, TRUE) = node))

RECURSIVE traverse(_, _, _, _, _, _, _)
RECURSIVE traverseEdges(_, _, _, _, _, _, _)

traverse(m, node, directed, stops, edge, t, inverse) ==
    IF node = Nil \/ node \in t.visited THEN t
    ELSE IF continues(node, stops)
    THEN traverseEdges(m, node, directed, stops, cellEdges(m, node),
                       visit(t, node, edge), inverse)
    ELSE visit(t, node, edge)

\* node.eachEdge: the other end of every followed edge is traversed in turn
traverseEdges(m, node, directed, stops, edges, t, inverse) ==
    IF edges = << >> THEN t
    ELSE traverseEdges(
             m, node, directed, stops, Tail(edges),
             IF follows(m, node, Head(edges), directed, inverse)
             THEN traverse(m,
                           getTerminal(m, Head(edges),
                                       getTerminal(m, Head(edges), TRUE) # node),
                           directed, stops, Head(edges), t, inverse)
             ELSE t,
             inverse)

\* rect.containsRect(b)
containsRect(rect, b) ==
    /\ rect.x <= b.x
    /\ rect.y <= b.y
    /\ b.x + b.width <= rect.x + rect.width
    /\ b.y + b.height <= rect.y + rect.height

\* util.getBoundingBox(bounds, rot) for a rotation by quarter turns about the
\* centre of the bounds
getBoundingBox(b, rot) ==
    IF rot % 180 = 90
    THEN Rectangle(getCenterX(b) - b.height \div 2, getCenterY(b) - b.width \div 2,
                   b.height, b.width)
    ELSE b

\* the box of a cell with a state that the region is compared with
regionBounds(m, cell) ==
    IF getRotation(cell) = 0 THEN getState(m, cell).bounds
    ELSE getBoundingBox(getState(m, cell).bounds, getRotation(cell))

\* getCellsInRegionEveryFit: every rendered descendant that fits is selected
getCellsInRegionEveryFit(m, rect, p, result) ==
    IF p = Nil THEN result
    ELSE result \o SelectSeq(Tail(getDescendants(m, p)),
                             LAMBDA c : /\ getState(m, c) # Null
                                        /\ isCellVisible(m, c)
                                        /\ containsRect(rect, regionBounds(m, c)))

RECURSIVE getCellsInRegion(_, _, _, _)
RECURSIVE regionLoop(_, _, _, _)

getCellsInRegion(m, rect, p, result) ==
    IF (rect.width > 0 \/ rect.height > 0) /\ p # Nil
    THEN regionLoop(m, rect, getChildren(m, p), result)
    ELSE result

\* the children of the parent in turn: a cell that fits is selected, the
\* children of any other rendered cell are tested
regionLoop(m, rect, kids, result) ==
    IF kids = << >> THEN result
    ELSE regionLoop(
             m, rect, Tail(kids),
             IF getState(m, Head(kids)) # Null /\ isCellVisible(m, Head(kids))
             THEN IF (isEdge(Head(kids)) \/ isNode(Head(kids)))
                     /\ containsRect(rect, regionBounds(m, Head(kids)))
                  THEN Append(result, Head(kids))
                  ELSE getCellsInRegion(m, rect, Head(kids), result)
             ELSE result)

-----------------------------------------------------------------------------
(* The calls *)

\* the behaviours explored make at most MaxCalls calls on a fresh graph
MaxCalls == 2

\* the state after a call that left the store record m
Commit(m, c) ==
    /\ calls < MaxCalls
    /\ calls' = calls + 1
    /\ parent' = m.parent
    /\ children' = m.children
    /\ geometry' = m.geometry
    /\ source' = m.source
    /\ target' = m.target
    /\ collapsed' = m.collapsed
    /\ visible' = m.visible
    /\ config' = [config EXCEPT !.allowNegativeCoordinates = m.allowNegativeCoordinates,
                                !.style = m.style]
    /\ updateLevel' = m.level
    /\ notified' = m.notified
    /\ fired' = m.fired
    /\ applied' = m.applied
    /\ call' = c
    /\ prev' = Snapshot

-----------------------------------------------------------------------------
(* Configurations and scenes *)

MaxPos == 3     \* positions are multiples of 20 up to 20 * MaxPos
MaxSize == 3    \* sizes are multiples of 40 up to 40 * MaxSize

Positions == { 20 * k : k \in 0 .. MaxPos }
Sizes == { 40 * k : k \in 1 .. MaxSize }

\* the options of a freshly created graph
DefaultConfig ==
    [ allowNegativeCoordinates |-> TRUE,
      extendParents |-> TRUE,
      extendParentsOnAdd |-> TRUE,
      constrainChildren |-> TRUE,
      constrainRelativeChildren |-> FALSE,
      maximumGraphBounds |-> Null,
      allowOverlapParent |-> FALSE,
      swimlanes |-> {},
      startSize |-> [width |-> 0, height |-> 20],
      direction |-> "east",
      flipH |-> FALSE,
      flipV |-> FALSE,
      scale |-> 1,
      translate |-> Point(0, 0),
      locked |-> {},
      cellsDisconnectable |-> TRUE,
      resetEdgesOnConnect |-> TRUE,
      disconnectOnMove |-> TRUE,
      extendParentsOnMove |-> FALSE,
      collapseToPreferredSize |-> FALSE,
      preferredSize |-> [width |-> 40, height |-> 40],
      rotation |-> [c \in Cells |-> 0],
      portsEnabled |-> TRUE,
      ports |-> {},
      alternateEdgeStyle |-> Null,
      style |-> [c \in Cells |-> NoStyle] ]

\* a store in which the cells of tree hang below their parents and all other
\* cells are created but not yet added
InitStore(par, kids, geo, src, trg, coll, vis) ==
    /\ parent = par
    /\ children = kids
    /\ geometry = geo
    /\ source = src
    /\ target = trg
    /\ collapsed = coll
    /\ visible = vis
    /\ updateLevel = 0
    /\ notified = << >>
    /\ fired = << >>
    /\ applied = << >>
    /\ call = [op |-> "init"]
    /\ prev = Snapshot
    /\ calls = 0

NoChildren == [c \in Cells |-> << >>]
NoParent == [c \in Cells |-> Nil]
NoTerminal == [c \in Cells |-> Nil]
AllFalse == [c \in Cells |-> FALSE]
AllTrue == [c \in Cells |-> TRUE]
FreshGeometry == [c \in Cells |-> IF c = Root THEN Null
                                   ELSE IF isEdge(c) THEN EdgeGeometry
                                   ELSE Geometry(0, 0, 40, 40)]

-----------------------------------------------------------------------------
(* SpecConstrain: constrainChild on a chain root > n1 > n2 > n3 *)

InitConstrain ==
    /\ \E x \in Positions \cup {-20}, y \in {0, 60}, w \in Sizes, h \in {40, 120},
          rel \in BOOLEAN, v3 \in BOOLEAN :
          InitStore([NoParent EXCEPT !["n1"] = Root, !["n2"] = "n1", !["n3"] = "n2"],
                    [NoChildren EXCEPT ![Root] = << "n1" >>, !["n1"] = << "n2" >>,
                                       !["n2"] = << "n3" >>],
                    [FreshGeometry EXCEPT
                        !["n1"] = Geometry(20, 20, 100, 80),
                        !["n2"] = IF rel
                                  THEN [Geometry(0, 0, w, h) EXCEPT
                                           !.relative = TRUE, !.offset = Point(x, y)]
                                  ELSE Geometry(x, y, w, h),
                        !["n3"] = Geometry(40, 0, 20, 20)],
                    NoTerminal, NoTerminal,
                    AllFalse, [AllTrue EXCEPT !["n3"] = v3])
    /\ config \in { [DefaultConfig EXCEPT !.constrainRelativeChildren = TRUE],
                     [DefaultConfig EXCEPT !.maximumGraphBounds = Rectangle(0, 0, 110, 90)],
                     [DefaultConfig EXCEPT !.maximumGraphBounds = Rectangle(200, 0, 110, 90)],
                     [DefaultConfig EXCEPT !.allowOverlapParent = TRUE],
                     [DefaultConfig EXCEPT !.swimlanes = {"n1"}] }

ConstrainChild ==
    \E cell \in Nodes :
        /\ contains(Store, cell)
        /\ Commit(constrainChild(Store, cell), [op |-> "constrainChild", cell |-> cell])

NextConstrain == ConstrainChild

SpecConstrain == InitConstrain /\ [][NextConstrain]_vars

-----------------------------------------------------------------------------
(* Spec: adding and resizing on root > n1 > n2, with n3 and e1 created *)

Init ==
    /\ \E w3 \in Sizes, c1 \in BOOLEAN :
          InitStore([NoParent EXCEPT !["n1"] = Root, !["n2"] = "n1"],
                    [NoChildren EXCEPT ![Root] = << "n1" >>, !["n1"] = << "n2" >>],
                    [FreshGeometry EXCEPT
                        !["n1"] = Geometry(20, 20, 120, 80),
                        !["n2"] = Geometry(20, 20, 80, 40),
                        !["n3"] = Geometry(80, 20, w3, 40)],
                    NoTerminal, NoTerminal,
                    [AllFalse EXCEPT !["n1"] = c1], AllTrue)
    /\ config \in { DefaultConfig,
                     [DefaultConfig EXCEPT !.constrainChildren = FALSE],
                     [DefaultConfig EXCEPT !.extendParents = FALSE],
                     [DefaultConfig EXCEPT !.maximumGraphBounds = Rectangle(0, 0, 160, 120),
                                           !.allowNegativeCoordinates = FALSE] }

\* the cell lists, parents and terminals an addCells call is given
AddInputs ==
    { [cells |-> << "n3" >>, src |-> Nil, trg |-> Nil],
      [cells |-> << "n3", Nil, "n2" >>, src |-> Nil, trg |-> Nil],
      [cells |-> << "e1" >>, src |-> "n1", trg |-> "n2"] }

AddCells ==
    \E in \in AddInputs, p \in {Root, "n1", "n2"}, index \in 0 .. 1 :
        /\ \A i \in DOMAIN in.cells :
               in.cells[i] # Nil => ~isAncestor(Store, in.cells[i], p)
        /\ index <= getChildCount(Store, p)
        /\ Commit(addCells(Store, in.cells, p, index, in.src, in.trg),
                  [op |-> "addCells", cells |-> in.cells, parent |-> p, index |-> index])

ResizeBounds ==
    { Rectangle(60, 20, w, 40) : w \in Sizes }
    \cup { Rectangle(-20, 0, 40, 120) }

ResizeCells ==
    \E cell \in Nodes, b \in ResizeBounds :
        /\ contains(Store, cell)
        /\ Commit(resizeCells(Store, << cell >>, << b >>),
                  [op |-> "resizeCells", cells |-> << cell >>, bounds |-> << b >>])

Next == AddCells \/ ResizeCells

Spec == Init /\ [][Next]_vars

-----------------------------------------------------------------------------
(* SpecRemove: removing and disconnecting on root > {n1 > {n2, e2}, n3, e1} *)
(* with e1 from n1 to n3 and e2 from n2 to n3                              *)

InitRemove ==
    /\ \E x3 \in Positions, v3 \in BOOLEAN, v1 \in BOOLEAN :
          InitStore([NoParent EXCEPT !["n1"] = Root, !["n2"] = "n1", !["n3"] = Root,
                                     !["e1"] = Root, !["e2"] = "n1"],
                    [NoChildren EXCEPT ![Root] = << "n1", "n3", "e1" >>,
                                       !["n1"] = << "n2", "e2" >>],
                    [FreshGeometry EXCEPT
                        !["n1"] = Geometry(20, 20, 120, 80),
                        !["n2"] = Geometry(20, 20, 40, 40),
                        !["n3"] = Geometry(200 + x3, 20, 40, 40)],
                    [NoTerminal EXCEPT !["e1"] = "n1", !["e2"] = "n2"],
                    [NoTerminal EXCEPT !["e1"] = "n3", !["e2"] = "n3"],
                    AllFalse,
                    [AllTrue EXCEPT !["n3"] = v3, !["e1"] = v1])
    /\ \E locked \in {{}, {"e1"}},
          zoom \in { [scale |-> 1, translate |-> Point(0, 0)],
                     [scale |-> 2, translate |-> Point(10, 10)] } :
          config = [DefaultConfig EXCEPT !.locked = locked,
                                         !.scale = zoom.scale,
                                         !.translate = zoom.translate]

\* the cell lists a removeCells call is given
RemoveInputs ==
    { << "n1" >>, << "n2" >>, << "n3" >>, << "e1" >>, << "n1", "n3" >>, << "n3", "n2" >> }

RemoveCells ==
    \E cells \in RemoveInputs, includeEdges \in BOOLEAN :
        /\ \A i \in DOMAIN cells : contains(Store, cells[i])
        /\ Commit(removeCells(Store, cells, includeEdges),
                  [op |-> "removeCells", cells |-> cells, includeEdges |-> includeEdges,
                   removing |-> removingCells(Store, cells, includeEdges)])

\* the cell lists a disconnectGraph call is given
DisconnectInputs ==
    { << "e1" >>, << "e2" >>, << "e1", "n3" >>, << "n1", "e2" >>, << "e2", "e1", "n2" >> }

DisconnectGraph ==
    \E cells \in DisconnectInputs :
        /\ \A i \in DOMAIN cells : contains(Store, cells[i])
        /\ Commit(disconnectGraph(Store, cells),
                  [op |-> "disconnectGraph", cells |-> cells])

NextRemove == RemoveCells \/ DisconnectGraph

SpecRemove == InitRemove /\ [][NextRemove]_vars

-----------------------------------------------------------------------------
(* SpecAlign: aligning on root > {n1, n2, e1}; n3 is a node of the root, a  *)
(* child of n2, or a node of the root with a relative geometry             *)

InitAlign ==
    /\ \E x1 \in Positions, kind \in {"top", "nested", "relative"} :
          InitStore([NoParent EXCEPT !["n1"] = Root, !["n2"] = Root,
                                     !["n3"] = IF kind = "nested" THEN "n2" ELSE Root,
                                     !["e1"] = Root],
                    [NoChildren EXCEPT
                        ![Root] = IF kind = "nested" THEN << "n1", "n2", "e1" >>
                                  ELSE << "n1", "n2", "n3", "e1" >>,
                        !["n2"] = IF kind = "nested" THEN << "n3" >> ELSE << >>],
                    [FreshGeometry EXCEPT
                        !["n1"] = Geometry(x1 - 20, 0, 40, 40),
                        !["n2"] = Geometry(40, 100, 80, 60),
                        !["n3"] = IF kind = "relative"
                                  THEN [Geometry(0, 0, 40, 20) EXCEPT !.relative = TRUE]
                                  ELSE Geometry(20, 20, 40, 20)],
                    [NoTerminal EXCEPT !["e1"] = "n1"],
                    [NoTerminal EXCEPT !["e1"] = "n2"],
                    AllFalse, AllTrue)
    /\ config \in { DefaultConfig,
                     [DefaultConfig EXCEPT !.allowNegativeCoordinates = FALSE,
                                           !.translate = Point(-10, -10)] }

Aligns == {"left", "center", "right", "top", "middle", "bottom"}

\* the cell lists given to alignCells: two nodes, an edge among nodes, a
\* parent with its child, a cell listed twice
AlignLists ==
    { << "n2", "n1" >>, << "n1", "e1", "n3" >>, << "n2", "n3", "n1" >>,
      << "n1", "n2", "n1" >> }

\* the alignCells calls: every alignment of every list without coordinate,
\* one call with a coordinate, one call with a single cell
AlignInputs ==
    { [align |-> a, cells |-> cs, param |-> << >>] : a \in Aligns, cs \in AlignLists }
        \cup { [align |-> "left", cells |-> << "n1", "n2" >>, param |-> << 60 >>],
               [align |-> "top", cells |-> << "n1" >>, param |-> << >>] }

AlignCells ==
    \E in \in AlignInputs :
        Commit(alignCells(Store, in.align, in.cells, in.param),
               [op |-> "alignCells", align |-> in.align, cells |-> in.cells,
                param |-> in.param])

NextAlign == AlignCells

SpecAlign == InitAlign /\ [][NextAlign]_vars

-----------------------------------------------------------------------------
(* SpecFold: folding on the chain root > n1 > n2 > n3.  The lengths are     *)
(* multiples of FoldUnit, so that the rotated offsets are whole numbers.   *)

FoldUnit == 2 ^ 6

InitFold ==
    /\ \E w \in Sizes, alt \in Sizes \cup {0} :
          InitStore([NoParent EXCEPT !["n1"] = Root, !["n2"] = "n1", !["n3"] = "n2"],
                    [NoChildren EXCEPT ![Root] = << "n1" >>, !["n1"] = << "n2" >>,
                                       !["n2"] = << "n3" >>],
                    [FreshGeometry EXCEPT
                        !["n1"] = [Geometry(20 * FoldUnit, 20 * FoldUnit,
                                            w * FoldUnit, 40 * FoldUnit)
                                   EXCEPT !.alternateBounds =
                                       IF alt = 0 THEN Null
                                       ELSE Rectangle(0, 0, alt * FoldUnit, 80 * FoldUnit)],
                        !["n2"] = Geometry(0, 0, 40 * FoldUnit, 20 * FoldUnit),
                        !["n3"] = Geometry(0, 0, 20 * FoldUnit, 20 * FoldUnit)],
                    NoTerminal, NoTerminal, AllFalse, AllTrue)
    /\ \E rot \in {0, 45}, pref \in BOOLEAN :
          config = [DefaultConfig EXCEPT
                       !.rotation["n1"] = rot,
                       !.collapseToPreferredSize = pref,
                       !.preferredSize = [width |-> 80 * FoldUnit, height |-> 80 * FoldUnit]]

FoldCells ==
    \E collapse \in BOOLEAN, recurse \in BOOLEAN, checkFoldable \in BOOLEAN,
       cells \in { << "n1" >>, << "n2" >>, << "n3", "n1" >> } :
        Commit(foldCells(Store, collapse, recurse, cells, checkFoldable),
               [op |-> "foldCells", collapse |-> collapse, recurse |-> recurse,
                cells |-> cells, checkFoldable |-> checkFoldable])

SwapBounds ==
    \E cell \in {"n1", "n2"}, willCollapse \in BOOLEAN :
        Commit(swapBounds(Store, cell, willCollapse),
               [op |-> "swapBounds", cell |-> cell, willCollapse |-> willCollapse])

NextFold == FoldCells \/ SwapBounds

SpecFold == InitFold /\ [][NextFold]_vars

-----------------------------------------------------------------------------
(* SpecPoint: getConnectionPoint on a node, an edge and a hidden node *)

InitPoint ==
    /\ \E w \in {40, 45}, direction \in {"east", "north", "west", "south"},
          rotation \in {0, 45, 90}, flipH \in BOOLEAN, flipV \in BOOLEAN :
          /\ InitStore([NoParent EXCEPT !["n1"] = Root, !["n2"] = Root, !["n3"] = Root,
                                        !["e1"] = Root],
                       [NoChildren EXCEPT ![Root] = << "n1", "n2", "n3", "e1" >>],
                       [FreshGeometry EXCEPT !["n1"] = Geometry(20, 60, w, 80),
                                             !["n2"] = Geometry(100, 20, 40, 40)],
                       [NoTerminal EXCEPT !["e1"] = "n1"],
                       [NoTerminal EXCEPT !["e1"] = "n2"],
                       AllFalse, [AllTrue EXCEPT !["n3"] = FALSE])
          /\ config = [DefaultConfig EXCEPT !.direction = direction,
                                            !.rotation["n1"] = rotation,
                                            !.rotation["e1"] = rotation,
                                            !.flipH = flipH, !.flipV = flipV]

PointInputs ==
    { Constraint(pt, perimeter, Num(d), Num(0)) :
        pt \in {Null, Point(Num(1), Num(1)), Point(Num(2), Num(0))},
        perimeter \in BOOLEAN, d \in {0, 1} }

GetConnectionPoint ==
    \E terminal \in {"n1", "n3", "e1"}, constraint \in PointInputs, round \in BOOLEAN :
        Commit(Store,
               [op |-> "getConnectionPoint", terminal |-> terminal,
                constraint |-> constraint, round |-> round,
                result |-> getConnectionPoint(Store, terminal, constraint, round)])

NextPoint == GetConnectionPoint

SpecPoint == InitPoint /\ [][NextPoint]_vars

-----------------------------------------------------------------------------
(* SpecMove: moves, groups and resizes with negative coordinates disallowed *)

InitMove ==
    /\ \E x \in {0, 20}, constrainChildren \in BOOLEAN :
          /\ InitStore([NoParent EXCEPT !["n1"] = Root, !["n2"] = "n1", !["n3"] = Root,
                                        !["e1"] = Root],
                       [NoChildren EXCEPT ![Root] = << "n1", "n3", "e1" >>,
                                          !["n1"] = << "n2" >>],
                       [FreshGeometry EXCEPT !["n1"] = Geometry(20, 20, 120, 80),
                                             !["n2"] = Geometry(x, 20, 40, 40),
                                             !["n3"] = Geometry(160, 0, 40, 40)],
                       [NoTerminal EXCEPT !["e1"] = "n2"],
                       [NoTerminal EXCEPT !["e1"] = "n3"],
                       AllFalse, AllTrue)
          /\ config = [DefaultConfig EXCEPT !.allowNegativeCoordinates = FALSE,
                                            !.constrainChildren = constrainChildren]

MoveCells ==
    \E cells \in { << "n1" >>, << "n2" >>, << "n3", "n2" >> },
       d \in { Point(-40, 0), Point(20, -20), Point(0, 0) },
       newParent \in {Nil, Root, "n1"} :
        /\ newParent # Nil => inDict(Store, SeqToSet(cells), newParent) = Nil
        /\ Commit(moveCells(Store, cells, d.x, d.y, newParent),
                  [op |-> "moveCells", cells |-> cells, dx |-> d.x, dy |-> d.y,
                   target |-> newParent,
                   allowNegativeCoordinates |-> config.allowNegativeCoordinates])

GroupCells ==
    \E in \in { [group |-> "n3", cells |-> << "n1" >>],
                [group |-> "n1", cells |-> << "n3", "e1" >>] },
       border \in {0, 20} :
        /\ inDict(Store, SeqToSet(in.cells), in.group) = Nil
        /\ Commit(groupCells(Store, in.group, border, in.cells),
                  [op |-> "groupCells", group |-> in.group, border |-> border,
                   cells |-> in.cells])

UpdateGroupBounds ==
    \E cells \in { << "n1" >>, << "n3", "n1" >> }, border \in {0, 20},
       moveGroup \in BOOLEAN :
        Commit(updateGroupBounds(Store, cells, border, moveGroup),
               [op |-> "updateGroupBounds", cells |-> cells, border |-> border,
                moveGroup |-> moveGroup])

NextMove ==
    \/ AddCells
    \/ MoveCells
    \/ ResizeCells
    \/ AlignCells
    \/ GroupCells
    \/ UpdateGroupBounds
    \/ FoldCells
    \/ ConstrainChild

SpecMove == InitMove /\ [][NextMove]_vars

-----------------------------------------------------------------------------
(* SpecTree: reparenting on root > n1 > n2 with n3 not yet added.  A call  *)
(* is not followed from a store whose hierarchy has a cycle (the walks up  *)
(* the ancestors do not end there), and a call that closes a cycle returns *)
(* only when no parent is extended and no child constrained.               *)

Occurrences(seq, c) == Cardinality({ i \in DOMAIN seq : seq[i] = c })

\* some cells have their parents among themselves: the parent relation has
\* a cycle
HasCycle(s) ==
    \E S \in SUBSET Cells : S # {} /\ \A c \in S : s.parent[c] \in S

\* no cell is its own ancestor, and a cell is once among the children of its
\* parent and not among the children of any other cell
IsTree(s) ==
    /\ ~HasCycle(s)
    /\ \A c \in Cells :
           \A p \in Cells :
               Occurrences(s.children[p], c) = IF s.parent[c] = p THEN 1 ELSE 0

\* one of the cells is p or an ancestor of p
Above(s, cells, p) ==
    \E i \in DOMAIN cells : cells[i] # Nil /\ isAncestor(s, cells[i], p)

\* groupCells puts a cell below itself: a cell is the group or above it, or
\* the group has no parent and is above the parent of the first cell
GroupsBelowItself(s, group, cells) ==
    \/ Above(s, cells, group)
    \/ /\ s.parent[group] = Nil
       /\ cells # << >>
       /\ isAncestor(s, group, s.parent[cells[1]])

Quiet == ~config.constrainChildren /\ ~config.extendParents

InitTree ==
    /\ \E quiet \in BOOLEAN :
          /\ InitStore([NoParent EXCEPT !["n1"] = Root, !["n2"] = "n1", !["e1"] = Root],
                       [NoChildren EXCEPT ![Root] = << "n1", "e1" >>, !["n1"] = << "n2" >>],
                       [FreshGeometry EXCEPT !["n1"] = Geometry(20, 20, 120, 80),
                                             !["n2"] = Geometry(20, 20, 40, 40),
                                             !["n3"] = Geometry(60, 0, 40, 40)],
                       [NoTerminal EXCEPT !["e1"] = "n1"],
                       [NoTerminal EXCEPT !["e1"] = "n2"],
                       AllFalse, AllTrue)
          /\ config = [DefaultConfig EXCEPT !.constrainChildren = ~quiet,
                                            !.extendParents = ~quiet]

AddCellsAny ==
    \E cells \in { << "n1" >>, << "n3" >>, << "n2", "n3" >> },
       p \in {Root, "n1", "n2", "n3"} :
        /\ IsTree(Snapshot)
        /\ Above(Store, cells, p) => Quiet
        /\ Commit(addCells(Store, cells, p, getChildCount(Store, p), Nil, Nil),
                  [op |-> "addCells", cells |-> cells, parent |-> p])

MoveCellsAny ==
    \E cells \in { << "n1" >>, << "n2" >>, << "n3", "n2" >> },
       newParent \in {Root, "n1", "n2", "n3"}, dx \in {0, 20} :
        /\ IsTree(Snapshot)
        /\ Above(Store, cells, newParent) => Quiet
        /\ Commit(moveCells(Store, cells, dx, 0, newParent),
                  [op |-> "moveCells", cells |-> cells, dx |-> dx, dy |-> 0,
                   target |-> newParent])

GroupCellsAny ==
    \E group \in {"n2", "n3"}, cells \in { << "n1" >>, << "n2" >>, << "n2", "e1" >> } :
        /\ IsTree(Snapshot)
        /\ GroupsBelowItself(Store, group, cells) => Quiet
        /\ Commit(groupCells(Store, group, 0, cells),
                  [op |-> "groupCells", group |-> group, border |-> 0, cells |-> cells])

UngroupCells ==
    \E cells \in { << "n1" >>, << "n2" >>, << "n3", "n1" >> } :
        /\ IsTree(Snapshot)
        /\ Commit(ungroupCells(Store, cells), [op |-> "ungroupCells", cells |-> cells])

RemoveCellsFromParent ==
    \E cells \in { << "n2" >>, << "n3" >>, << "n1", "n2" >> } :
        /\ IsTree(Snapshot)
        /\ Commit(removeCellsFromParent(Store, cells),
                  [op |-> "removeCellsFromParent", cells |-> cells])

NextTree ==
    \/ AddCellsAny
    \/ MoveCellsAny
    \/ GroupCellsAny
    \/ UngroupCells
    \/ RemoveCellsFromParent

SpecTree == InitTree /\ [][NextTree]_vars

-----------------------------------------------------------------------------
(* SpecInvalid: bulk operations on null arrays, null entries, an empty     *)
(* list and arrays of different lengths                                    *)

InitInvalid ==
    /\ \E x \in Positions :
          InitStore([NoParent EXCEPT !["n1"] = Root, !["n2"] = "n1", !["n3"] = Root,
                                     !["e1"] = Root],
                    [NoChildren EXCEPT ![Root] = << "n1", "n3", "e1" >>,
                                       !["n1"] = << "n2" >>],
                    [FreshGeometry EXCEPT !["n1"] = Geometry(20, 20, 120, 80),
                                          !["n2"] = Geometry(x, 20, 40, 40),
                                          !["n3"] = Geometry(200, 20, 40, 40)],
                    [NoTerminal EXCEPT !["e1"] = "n1"],
                    [NoTerminal EXCEPT !["e1"] = "n3"],
                    AllFalse, AllTrue)
    /\ config = DefaultConfig

\* arrays of cells with invalid references, and a valid one
InvalidLists == { NoCells, << Nil >>, << "n2", Nil >>, << Nil, "n3", "n1" >>, << "n3", "n2" >> }

\* the outcome of a call that left the store record m
Outcome(m, c) == Commit(m, [c EXCEPT !.threw = m.threw])

RemoveCellsInvalid ==
    \E cells \in InvalidLists, includeEdges \in BOOLEAN :
        Outcome(removeCells(Store, cells, includeEdges),
                [op |-> "removeCells", cells |-> cells, threw |-> FALSE])

AddCellsInvalid ==
    \E cells \in InvalidLists, p \in {Root, "n1"} :
        Outcome(addCells(Store, cells, p, 0, Nil, Nil),
                [op |-> "addCells", cells |-> cells, threw |-> FALSE])

OrderCells ==
    \E cells \in InvalidLists, toBack \in BOOLEAN :
        Outcome(orderCells(Store, toBack, cells),
                [op |-> "orderCells", cells |-> cells, threw |-> FALSE])

ToggleCells ==
    \E cells \in InvalidLists, show \in BOOLEAN, includeEdges \in BOOLEAN :
        Outcome(toggleCells(Store, show, cells, includeEdges),
                [op |-> "toggleCells", cells |-> cells, threw |-> FALSE])

UpdateGroupBoundsInvalid ==
    \E cells \in InvalidLists \ {NoCells}, moveGroup \in BOOLEAN :
        Outcome(updateGroupBounds(Store, cells, 0, moveGroup),
                [op |-> "updateGroupBounds", cells |-> cells, threw |-> FALSE])

SplitEdge ==
    \E cells \in { << >>, << "n2" >> }, dx \in {0, 20} :
        /\ contains(Store, "e1") /\ ~contains(Store, "e2")
        /\ Outcome(splitEdge(Store, "e1", cells, "e2", dx, 0),
                   [op |-> "splitEdge", cells |-> cells, threw |-> FALSE])

ResizeCellsInvalid ==
    \E cells \in { << "n2" >>, << "n2", "n1" >> },
       bounds \in { << >>, << Rectangle(0, 0, 80, 120) >>,
                    << Rectangle(20, 0, 200, 40), Rectangle(0, 0, 40, 40) >> } :
        /\ \A i \in DOMAIN cells : contains(Store, cells[i])
        /\ Outcome(resizeCells(Store, cells, bounds),
                   [op |-> "resizeCells", cells |-> cells, bounds |-> bounds,
                    threw |-> FALSE])

NextInvalid ==
    \/ RemoveCellsInvalid
    \/ AddCellsInvalid
    \/ OrderCells
    \/ ToggleCells
    \/ UpdateGroupBoundsInvalid
    \/ SplitEdge
    \/ ResizeCellsInvalid

SpecInvalid == InitInvalid /\ [][NextInvalid]_vars

-----------------------------------------------------------------------------
(* SpecGeometry: the operations that write geometries, on root > n1 > n2,  *)
(* n3 and a routed edge e1 from n2 to n3                                   *)

InitGeometry ==
    /\ InitStore([NoParent EXCEPT !["n1"] = Root, !["n2"] = "n1", !["n3"] = Root,
                                  !["e1"] = Root],
                 [NoChildren EXCEPT ![Root] = << "n1", "n3", "e1" >>,
                                    !["n1"] = << "n2" >>],
                 [FreshGeometry EXCEPT
                     !["n1"] = Geometry(20, 20, 120, 80),
                     !["n2"] = Geometry(20, 20, 40, 40),
                     !["n3"] = Geometry(200, 20, 40, 40),
                     !["e1"] = [EdgeGeometry EXCEPT !.points = << Point(180, 100) >>]],
                 [NoTerminal EXCEPT !["e1"] = "n2"],
                 [NoTerminal EXCEPT !["e1"] = "n3"],
                 AllFalse, AllTrue)
    /\ config = [DefaultConfig EXCEPT !.allowNegativeCoordinates = FALSE]

NextGeometry ==
    \/ MoveCells
    \/ ResizeCells
    \/ ConstrainChild
    \/ AlignCells
    \/ UpdateGroupBounds
    \/ SwapBounds
    \/ RemoveCells
    \/ DisconnectGraph
    \/ SplitEdge

SpecGeometry == InitGeometry /\ [][NextGeometry]_vars

-----------------------------------------------------------------------------
(* SpecConnect: connecting the edge e1 of root > n1 > n2, n3, where n2 is  *)
(* a port of n1                                                            *)

InitConnect ==
    /\ \E portsEnabled \in BOOLEAN :
          /\ InitStore([NoParent EXCEPT !["n1"] = Root, !["n2"] = "n1", !["n3"] = Root,
                                        !["e1"] = Root],
                       [NoChildren EXCEPT ![Root] = << "n1", "n3", "e1" >>,
                                          !["n1"] = << "n2" >>],
                       [FreshGeometry EXCEPT
                           !["n1"] = Geometry(20, 20, 120, 80),
                           !["n2"] = Geometry(0, 20, 40, 40),
                           !["n3"] = Geometry(200, 20, 40, 40),
                           !["e1"] = EdgeGeometry],
                       NoTerminal, NoTerminal, AllFalse, AllTrue)
          /\ config = [DefaultConfig EXCEPT !.portsEnabled = portsEnabled,
                                            !.ports = {"n2"}]

\* no constraint, a constraint without a point, the centre, the top right
\* corner off the perimeter with an offset
ConstraintInputs ==
    { Null,
      Constraint(Null, TRUE, Num(0), Num(0)),
      Constraint(Point(Num(1), Num(1)), TRUE, Num(0), Num(0)),
      Constraint(Point(Num(2), Num(0)), FALSE, Num(1), Num(0)) }

\* the call and the constraint read back from the edge's style afterwards
Connected(m, op, edge, terminal, isSource, constraint) ==
    Commit(m, [op |-> op, edge |-> edge, terminal |-> terminal,
               isSource |-> isSource, constraint |-> constraint,
               result |-> getConnectionConstraint(getCellStyle(m, edge), isSource)])

SetConnectionConstraint ==
    \E isSource \in BOOLEAN, constraint \in ConstraintInputs :
        Connected(setConnectionConstraint(Store, "e1", getTerminal(Store, "e1", isSource),
                                          isSource, constraint),
                  "setConnectionConstraint", "e1", getTerminal(Store, "e1", isSource),
                  isSource, constraint)

ConnectCell ==
    \E terminal \in {Nil, "n1", "n2", "n3"}, isSource \in BOOLEAN,
       constraint \in ConstraintInputs :
        Connected(connectCell(Store, "e1", terminal, isSource, constraint),
                  "connectCell", "e1", terminal, isSource, constraint)

NextConnect ==
    \/ SetConnectionConstraint
    \/ ConnectCell

SpecConnect == InitConnect /\ [][NextConnect]_vars

-----------------------------------------------------------------------------
(* SpecQuery: the queries on graphs of four nodes and three edges.  The    *)
(* nodes lie flat in the root, or n2 and n3 in n1, or n1 > n2 > n3; n1 may *)
(* be collapsed and n3 hidden.                                             *)

QueryShapes ==
    { [ parent |-> [NoParent EXCEPT !["n1"] = Root, !["n2"] = Root, !["n3"] = Root,
                                    !["n4"] = Root, !["e1"] = Root, !["e2"] = Root,
                                    !["e3"] = Root],
        children |-> [NoChildren EXCEPT
                         ![Root] = << "n1", "n2", "n3", "n4", "e1", "e2", "e3" >>] ],
      [ parent |-> [NoParent EXCEPT !["n1"] = Root, !["n2"] = "n1", !["n3"] = "n1",
                                    !["n4"] = Root, !["e1"] = Root, !["e2"] = Root,
                                    !["e3"] = Root],
        children |-> [NoChildren EXCEPT
                         ![Root] = << "n1", "n4", "e1", "e2", "e3" >>,
                         !["n1"] = << "n2", "n3" >>] ],
      [ parent |-> [NoParent EXCEPT !["n1"] = Root, !["n2"] = "n1", !["n3"] = "n2",
                                    !["n4"] = Root, !["e1"] = Root, !["e2"] = Root,
                                    !["e3"] = Root],
        children |-> [NoChildren EXCEPT
                         ![Root] = << "n1", "n4", "e1", "e2", "e3" >>,
                         !["n1"] = << "n2" >>, !["n2"] = << "n3" >>] ] }

\* the ends of e1, e2 and e3: e1 may dangle, e2 may be a loop of n1, e3 may
\* be unconnected
QueryWirings ==
    { [ source |-> [NoTerminal EXCEPT !["e1"] = s1, !["e2"] = e2[1], !["e3"] = s3],
        target |-> [NoTerminal EXCEPT !["e1"] = t1, !["e2"] = e2[2],
                                      !["e3"] = IF s3 = Nil THEN Nil ELSE "n1"] ] :
        s1 \in {"n2", "n3"}, t1 \in {"n3", "n4", Nil},
        e2 \in { << "n1", "n1" >>, << "n1", "n2" >>, << "n3", "n2" >>, << "n4", "n2" >> },
        s3 \in {Nil, "n3"} }

\* n1 collapsed or not, n3 hidden or not
QueryFlags == { << FALSE, TRUE >>, << TRUE, TRUE >>, << FALSE, FALSE >> }

InitQuery ==
    /\ \E shape \in QueryShapes, wiring \in QueryWirings, flags \in QueryFlags :
          InitStore(shape.parent, shape.children, FreshGeometry,
                    wiring.source, wiring.target,
                    [AllFalse EXCEPT !["n1"] = flags[1]],
                    [AllTrue EXCEPT !["n3"] = flags[2]])
    /\ config = DefaultConfig

\* a query leaves the store as it is and returns its result
Answer(c) ==
    /\ call' = c
    /\ UNCHANGED << parent, children, geometry, source, target, collapsed, visible,
                    config, updateLevel, notified, fired, applied, prev, calls >>

GetEdges ==
    \E node \in {"n1", "n2"}, p \in {Nil, Root},
       sides \in { << TRUE, TRUE >>, << TRUE, FALSE >>, << FALSE, TRUE >> },
       includeLoops \in BOOLEAN :
        Answer([op |-> "getEdges", node |-> node, parent |-> p,
                incoming |-> sides[1], outgoing |-> sides[2],
                includeLoops |-> includeLoops,
                result |-> getEdges(Store, node, p, sides[1], sides[2],
                                    includeLoops, FALSE)])

FindTreeRoots ==
    \E p \in {Root, "n1"}, isolate \in BOOLEAN, invert \in BOOLEAN :
        Answer([op |-> "findTreeRoots", parent |-> p, isolate |-> isolate,
                invert |-> invert,
                result |-> findTreeRoots(Store, p, isolate, invert)])

Traverse ==
    \E node \in Nodes, directed \in BOOLEAN, inverse \in BOOLEAN,
       stops \in { {}, {"n3"} } :
        Answer([op |-> "traverse", node |-> node, directed |-> directed,
                inverse |-> inverse, stops |-> stops,
                result |-> traverse(Store, node, directed, stops, Nil, NoWalk, inverse)])

NextQuery ==
    \/ GetEdges
    \/ FindTreeRoots
    \/ Traverse

SpecQuery == InitQuery /\ [][NextQuery]_vars

-----------------------------------------------------------------------------
(* SpecRegion: region queries on root > {n1 > {n2, n3}, n4}; n2 lies       *)
(* inside n1 or sticks out of it, n3 may be turned by 90 degrees           *)

InitRegion ==
    /\ \E x \in {20, 100}, isCollapsed \in BOOLEAN, isVisible \in BOOLEAN :
          InitStore([NoParent EXCEPT !["n1"] = Root, !["n2"] = "n1", !["n3"] = "n1",
                                     !["n4"] = Root],
                    [NoChildren EXCEPT ![Root] = << "n1", "n4" >>,
                                       !["n1"] = << "n2", "n3" >>],
                    [FreshGeometry EXCEPT
                        !["n1"] = Geometry(20, 20, 120, 80),
                        !["n2"] = Geometry(x, 20, 40, 40),
                        !["n3"] = Geometry(60, 0, 40, 80),
                        !["n4"] = Geometry(200, 20, 40, 40)],
                    NoTerminal, NoTerminal,
                    [AllFalse EXCEPT !["n1"] = isCollapsed],
                    [AllTrue EXCEPT !["n2"] = isVisible])
    /\ \E rot \in {0, 90} :
          config = [DefaultConfig EXCEPT !.rotation["n3"] = rot]

Regions ==
    { Rectangle(x, 0, w, h) : x \in {0, 100}, w \in {0, 80, 160, 260}, h \in {0, 90, 120} }

GetCellsInRegion ==
    \E rect \in Regions, p \in {Nil, Root, "n1"} :
        Answer([op |-> "getCellsInRegion", rect |-> rect, parent |-> p,
                result |-> getCellsInRegion(Store, rect, p, << >>)])

NextRegion ==
    \/ GetCellsInRegion

SpecRegion == InitRegion /\ [][NextRegion]_vars

-----------------------------------------------------------------------------
(* SpecResize: resizing on the chain root > n1 > n2 > n3, where n3 has an  *)
(* absolute geometry or a relative one with or without an offset; n1 or n2 *)
(* may be collapsed, n2 may start left of n1 or be a swimlane              *)

InitResize ==
    /\ \E offset \in {Null, Point(0, 0), Point(20, 0)}, rel \in BOOLEAN,
          folded \in {Nil, "n1", "n2"}, x2 \in {20, -20} :
          /\ rel \/ offset = Null
          /\ InitStore([NoParent EXCEPT !["n1"] = Root, !["n2"] = "n1", !["n3"] = "n2"],
                       [NoChildren EXCEPT ![Root] = << "n1" >>, !["n1"] = << "n2" >>,
                                          !["n2"] = << "n3" >>],
                       [FreshGeometry EXCEPT
                           !["n1"] = Geometry(20, 20, 120, 80),
                           !["n2"] = Geometry(x2, 20, 80, 40),
                           !["n3"] = [Geometry(20, 0, 40, 40) EXCEPT
                                         !.relative = rel, !.offset = offset]],
                       NoTerminal, NoTerminal,
                       [c \in Cells |-> c = folded], AllTrue)
    /\ config \in { DefaultConfig,
                     [DefaultConfig EXCEPT !.constrainChildren = FALSE],
                     [DefaultConfig EXCEPT !.extendParents = FALSE],
                     [DefaultConfig EXCEPT !.maximumGraphBounds = Rectangle(0, 0, 160, 120)],
                     [DefaultConfig EXCEPT !.swimlanes = {"n2"},
                                           !.startSize = [width |-> 0, height |-> 40]] }

NextResize ==
    \/ ResizeCells

SpecResize == InitResize /\ [][NextResize]_vars

-----------------------------------------------------------------------------
(* SpecAdd: addCells into n1 and orderCells among the children of n1,     *)
(* which has the children n2, n3 and n4; e1 and e2 are created but not yet *)
(* added                                                                   *)

InitAdd ==
    /\ InitStore([NoParent EXCEPT !["n1"] = Root, !["n2"] = "n1", !["n3"] = "n1",
                                  !["n4"] = "n1"],
                 [NoChildren EXCEPT ![Root] = << "n1" >>,
                                    !["n1"] = << "n2", "n3", "n4" >>],
                 [FreshGeometry EXCEPT
                     !["n1"] = Geometry(20, 20, 120, 80),
                     !["n2"] = Geometry(0, 0, 40, 40),
                     !["n3"] = Geometry(40, 0, 40, 40),
                     !["n4"] = Geometry(80, 0, 40, 40)],
                 NoTerminal, NoTerminal, AllFalse, AllTrue)
    /\ config \in { DefaultConfig, [DefaultConfig EXCEPT !.constrainChildren = FALSE] }

\* the lists of distinct cells of at most two cells, and lists with null
\* entries
AddLists ==
    { << c >> : c \in {"n2", "n3", "n4", "e1"} }
    \cup ({ << c, d >> : c, d \in {"n2", "n3", "n4", "e1"} } \ { << c, c >> : c \in Cells })
    \cup { << Nil, "e1" >>, << "e1", Nil, "e2" >>, << "n4", Nil, "e1" >>,
           << Nil, "n2", Nil >> }

AddCellsAt ==
    \E cells \in AddLists, index \in 0 .. 5 :
        /\ index <= getChildCount(Store, "n1")
        /\ Commit(addCells(Store, cells, "n1", index, Nil, Nil),
                  [op |-> "addCells", cells |-> cells, parent |-> "n1", index |-> index])

\* the lists of one to three distinct cells
OrderLists ==
    { << c >> : c \in {"n2", "n3", "n4", "e1"} }
    \cup ({ << c, d >> : c, d \in {"n2", "n3", "n4", "e1"} } \ { << c, c >> : c \in Cells })
    \cup { << "n4", "n2", "n3" >>, << "n3", "e1", "n2" >>, << "e1", "n4", "n3" >> }

\* orderCells on children of n1
OrderCellsOf ==
    \E cells \in OrderLists, toBack \in BOOLEAN :
        /\ \A i \in DOMAIN cells : getParent(Store, cells[i]) = "n1"
        /\ Commit(orderCells(Store, toBack, cells),
                  [op |-> "orderCells", toBack |-> toBack, cells |-> cells])

NextAdd ==
    \/ AddCellsAt
    \/ OrderCellsOf

SpecAdd == InitAdd /\ [][NextAdd]_vars

-----------------------------------------------------------------------------
(* SpecFlip: flipEdge on the edges e1 and e2 between n1 and n2; the style  *)
(* of an edge is null, the empty object or the alternate edge style, and   *)
(* an edge has a waypoint or none                                          *)

InitFlip ==
    /\ \E s1 \in {Null, NoStyle, ElbowStyle}, s2 \in {Null, NoStyle},
          pts1 \in { << >>, << Point(60, 60) >> }, pts2 \in { << >>, << Point(60, 60) >> },
          alt \in {Null, ElbowStyle} :
          /\ InitStore([NoParent EXCEPT !["n1"] = Root, !["n2"] = Root, !["e1"] = Root,
                                        !["e2"] = Root],
                       [NoChildren EXCEPT ![Root] = << "n1", "n2", "e1", "e2" >>],
                       [FreshGeometry EXCEPT
                           !["n1"] = Geometry(20, 20, 40, 40),
                           !["n2"] = Geometry(120, 20, 40, 40),
                           !["e1"] = [EdgeGeometry EXCEPT !.points = pts1],
                           !["e2"] = [EdgeGeometry EXCEPT !.points = pts2]],
                       [NoTerminal EXCEPT !["e1"] = "n1", !["e2"] = "n1"],
                       [NoTerminal EXCEPT !["e1"] = "n2", !["e2"] = "n2"],
                       AllFalse, AllTrue)
          /\ config = [DefaultConfig EXCEPT !.alternateEdgeStyle = alt,
                                            !.style["e1"] = s1, !.style["e2"] = s2]

\* the call with the style the edge had before it
FlipEdge ==
    \E edge \in {Nil, "e1", "e2"} :
        Commit(flipEdge(Store, edge),
               [op |-> "flipEdge", edge |-> edge,
                before |-> IF edge = Nil THEN Null ELSE getStyle(Store, edge)])

NextFlip ==
    \/ FlipEdge

SpecFlip == InitFlip /\ [][NextFlip]_vars

-----------------------------------------------------------------------------
(* Splitting an edge: an edge with waypoints between two nodes, nodes to   *)
(* insert, with and without a state of the edge, with and without the      *)
(* reset of edges on connect                                               *)

SplitPoints == << Point(80, 60), Point(120, 60) >>

InitSplit ==
    /\ \E n \in 0 .. Len(SplitPoints), shown \in BOOLEAN, reset \in BOOLEAN :
          /\ InitStore([NoParent EXCEPT !["n1"] = Root, !["n2"] = Root, !["n3"] = Root,
                                        !["e1"] = Root],
                       [NoChildren EXCEPT ![Root] = << "n1", "n2", "n3", "e1" >>],
                       [FreshGeometry EXCEPT
                           !["n1"] = Geometry(20, 20, 40, 40),
                           !["n2"] = Geometry(160, 20, 40, 40),
                           !["n3"] = Geometry(80, 100, 40, 40),
                           !["e1"] = [EdgeGeometry EXCEPT !.points = SubSeq(SplitPoints, 1, n)]],
                       [NoTerminal EXCEPT !["e1"] = "n1"],
                       [NoTerminal EXCEPT !["e1"] = "n2"],
                       AllFalse, [AllTrue EXCEPT !["e1"] = shown])
          /\ config = [DefaultConfig EXCEPT !.resetEdgesOnConnect = reset]

\* the segments of the route of an edge with a state: one more than waypoints
Segments(edge) ==
    IF getState(Store, edge) = Null THEN {0}
    ELSE 0 .. Len(geometry[edge].points)

\* splitEdge(edge, cells, null, dx, dy); the clone takes the next free name
\* and idx is the segment nearest to (dx, dy)
SplitEdgeNew ==
    \E edge \in {"e1", "e2"}, cells \in { << "n3" >>, << "n4" >>, << "n3", "n4" >> },
       d \in { Point(0, 0), Point(20, 0) } :
        /\ contains(Store, edge)
        /\ \E idx \in Segments(edge) :
              Commit(splitEdgeCloned(Store, edge, cells,
                                     IF contains(Store, "e2") THEN "e3" ELSE "e2",
                                     idx, d.x, d.y),
                     [op |-> "splitEdge", edge |-> edge, cells |-> cells,
                      newEdge |-> IF contains(Store, "e2") THEN "e3" ELSE "e2",
                      idx |-> idx, dx |-> d.x, dy |-> d.y])

NextSplit ==
    \/ SplitEdgeNew

SpecSplit == InitSplit /\ [][NextSplit]_vars

-----------------------------------------------------------------------------
(* Claims on transactions and events *)

\* the operations that run in a batch of their own
Batched == {"addCells", "resizeCells", "removeCells", "disconnectGraph", "alignCells"}

\* the number of times the event was emitted during the last call
Emitted(name) == Cardinality({ i \in DOMAIN fired : fired[i].name = name })

\* C1: however the batches of a call nest, exactly one change-set is
\* delivered, on return of the outermost batch, and it holds every mutation
\* of the call in the order of application.
C1_OneChangeSet ==
    call.op \in Batched =>
        /\ updateLevel = 0
        /\ Len(notified) = 1
        /\ notified[1] = applied

\* an addCells call whose mutations were made three batches deep
C1_Witness ==
    /\ call.op = "addCells"
    /\ Len(applied) >= 3
    /\ \E i \in DOMAIN fired : fired[i].name = "cellConnected" /\ fired[i].level >= 3

\* C2: a call of a public operation delivers one change-set and emits each
\* of its named events exactly once, whatever cascades it triggers.
C2_EachEventOnce ==
    /\ call.op = "addCells" =>
           /\ Len(notified) = 1
           /\ Emitted("addCells") = 1
           /\ Emitted("cellsAdded") = 1
    /\ call.op = "resizeCells" =>
           /\ Len(notified) = 1
           /\ Emitted("resizeCells") = 1
           /\ Emitted("cellsResized") = 1

\* C6: after addCells with parents extended on add, every added node with an
\* absolute geometry fits in the width and height of its expanded parent.
C6_ParentExtended ==
    (call.op = "addCells" /\ config.extendParentsOnAdd) =>
        \A i \in DOMAIN call.cells :
            LET c == call.cells[i]
                p == call.parent
            IN (/\ c # Nil
                /\ isExtendParent(c)
                /\ geometry[c] # Null
                /\ ~geometry[c].relative
                /\ geometry[p] # Null
                /\ ~collapsed[p])
               => /\ geometry[p].bounds.width >=
                         geometry[c].bounds.x + geometry[c].bounds.width
                  /\ geometry[p].bounds.height >=
                         geometry[c].bounds.y + geometry[c].bounds.height

-----------------------------------------------------------------------------
(* Claims on removal and disconnection *)

\* the terminal of an edge in the store record s
TerminalIn(s, e, isSource) == IF isSource THEN s.source[e] ELSE s.target[e]

\* the terminal point of a geometry
TerminalPointOf(geo, isSource) == IF isSource THEN geo.sourcePoint ELSE geo.targetPoint

\* the end of a rendered route on one side
RouteEnd(state, isSource) ==
    state.absolutePoints[IF isSource THEN 1 ELSE Len(state.absolutePoints)]

\* C3: after removeCells no edge that stays in the store has a terminal that
\* is a removed cell or a descendant of one, on either side.
C3_NoRemovedTerminal ==
    call.op = "removeCells" =>
        \A e \in Edges :
            (contains(Store, e) /\ ~Contains(call.removing, e)) =>
                \A r \in SeqToSet(call.removing), isSource \in BOOLEAN :
                    ~isAncestor(Store, r, TerminalIn(Store, e, isSource))

\* the point C4 expects on a side severed by removal: the end of the edge's
\* rendered route, else the rendered centre of the terminal, else none
FrozenPoint(e, isSource) ==
    IF stateOf(prev, e) # Null
    THEN modelPoint(RouteEnd(stateOf(prev, e), isSource), stateOf(prev, e).origin)
    ELSE IF stateOf(prev, TerminalIn(prev, e, isSource)) # Null
    THEN modelPoint(centerOf(stateOf(prev, TerminalIn(prev, e, isSource)).bounds),
                    Point(0, 0))
    ELSE Null

\* C4: whenever removal severs a side of an edge, the geometry of the edge
\* holds a terminal point on that side, equal to the end of the rendered
\* route or else the rendered centre of the terminal.
C4_FrozenPointStored ==
    call.op = "removeCells" =>
        \A e \in Edges, isSource \in BOOLEAN :
            (/\ contains(Store, e)
             /\ TerminalIn(prev, e, isSource) # Nil
             /\ TerminalIn(Store, e, isSource) = Nil)
            => /\ TerminalPointOf(geometry[e], isSource) # Null
               /\ TerminalPointOf(geometry[e], isSource) = FrozenPoint(e, isSource)

\* whether disconnectGraph is to cut the side: the terminal is disconnectable
\* and neither it nor an ancestor of it is among the cells
ToBeCut(e, isSource) ==
    /\ TerminalIn(prev, e, isSource) # Nil
    /\ isCellDisconnectable(e, TerminalIn(prev, e, isSource), isSource)
    /\ \A c \in SeqToSet(call.cells) : ~isAncestor(prev, c, TerminalIn(prev, e, isSource))

\* whether disconnectGraph finds the edge rendered below a rendered parent
RenderedInParent(e) ==
    /\ prev.geometry[e] # Null
    /\ stateOf(prev, e) # Null
    /\ stateOf(prev, prev.parent[e]) # Null

\* the terminal point disconnectGraph stores: the end of the route, relative
\* to the parent of the edge
DisconnectedPoint(e, isSource) ==
    modelPoint(RouteEnd(stateOf(prev, e), isSource), stateOf(prev, prev.parent[e]).origin)

-----------------------------------------------------------------------------
(* Claims on alignment *)

\* the cells alignCells aligns: the nodes of the list that were rendered
Aligned == { c \in SeqToSet(call.cells) : ~isEdge(c) /\ stateOf(prev, c) # Null }

\* the first aligned cell of the list
FirstAligned == call.cells[CHOOSE i \in DOMAIN call.cells :
                              /\ call.cells[i] \in Aligned
                              /\ \A j \in 1 .. (i - 1) : call.cells[j] \notin Aligned]

\* the side or centre of a rectangle that the alignment is about
Side(align, b) ==
    IF align = "left" THEN b.x
    ELSE IF align = "center" THEN b.x + Half(b.width)
    ELSE IF align = "right" THEN b.x + b.width
    ELSE IF align = "top" THEN b.y
    ELSE IF align = "middle" THEN b.y + Half(b.height)
    ELSE b.y + b.height

\* the extremum of the side over the rendered bounds of the aligned cells
Extremum(align) ==
    CHOOSE v \in { Side(align, stateOf(prev, c).bounds) : c \in Aligned } :
        \A c \in Aligned :
            IF align \in {"right", "bottom"}
            THEN Side(align, stateOf(prev, c).bounds) <= v
            ELSE Side(align, stateOf(prev, c).bounds) >= v

\* an alignCells call without coordinate on at least two rendered nodes, at zoom 1
AlignedToExtremum ==
    /\ call.op = "alignCells"
    /\ call.param = << >>
    /\ Len(call.cells) > 1
    /\ Cardinality(Aligned) >= 2
    /\ config.scale = 1

\* C7 as stated: after alignCells to 'left', 'right', 'top' or 'bottom' the
\* side of every aligned cell is at the extremum of that side over the cells.
C7_AlignedToExtremum ==
    (AlignedToExtremum /\ call.align \in {"left", "right", "top", "bottom"}) =>
        \A c \in Aligned :
            Side(call.align, stateOf(Snapshot, c).bounds) = Extremum(call.align)

\* the case in which nothing but the alignment decides the position: each
\* cell is listed once, the aligned cells are children of the root with an
\* absolute geometry, negative coordinates are allowed, no maximum bounds
Unconstrained ==
    /\ \A i, j \in DOMAIN call.cells : call.cells[i] = call.cells[j] => i = j
    /\ \A c \in Aligned : prev.parent[c] = Root /\ ~prev.geometry[c].relative
    /\ config.allowNegativeCoordinates
    /\ config.maximumGraphBounds = Null

\* C7 amended: the same when each cell is listed once and the aligned cells
\* are children of the root with an absolute geometry, while negative
\* coordinates are allowed and the graph has no maximum bounds.
C7_AlignedTopLevel ==
    (/\ AlignedToExtremum
     /\ call.align \in {"left", "right", "top", "bottom"}
     /\ Unconstrained) =>
        \A c \in Aligned :
            Side(call.align, stateOf(Snapshot, c).bounds) = Extremum(call.align)

\* two nodes of the root with different right sides, aligned to the right
C7_Witness ==
    /\ AlignedToExtremum
    /\ Unconstrained
    /\ call.align = "right"
    /\ \E c \in Aligned :
           Side("right", stateOf(prev, c).bounds) # Extremum("right")
    /\ \A c \in Aligned :
           Side("right", stateOf(Snapshot, c).bounds) = Extremum("right")

\* C8: after alignCells to 'center' or 'middle' the centre of every aligned
\* cell is where the centre of the first aligned cell was.
C8_AlignedToFirstCenter ==
    (AlignedToExtremum /\ Unconstrained /\ call.align \in {"center", "middle"}) =>
        \A c \in Aligned :
            Side(call.align, stateOf(Snapshot, c).bounds)
                = Side(call.align, stateOf(prev, FirstAligned).bounds)

-----------------------------------------------------------------------------
(* Claims on folding *)

\* C11: swapBounds(cell, true) followed by swapBounds(cell, false) restores
\* the bounds of the cell exactly and keeps the size of the alternate bounds.
C11_SwapRoundTrip ==
    (call.op = "swapBounds" /\ call.willCollapse) =>
        LET back == swapBounds(Store, call.cell, FALSE).geometry[call.cell]
        IN /\ back.bounds = prev.geometry[call.cell].bounds
           /\ back.alternateBounds.width = geometry[call.cell].bounds.width
           /\ back.alternateBounds.height = geometry[call.cell].bounds.height

-----------------------------------------------------------------------------
(* Claims on constrainChild *)

\* the cell of the last constrainChild call, when the call had a geometry to
\* constrain and a rectangle to keep it in
ConstrainApplied ==
    /\ call.op = "constrainChild"
    /\ prev.geometry[call.cell] # Null
    /\ (config.constrainRelativeChildren \/ ~prev.geometry[call.cell].relative)
    /\ allowedArea(prev, call.cell) # Null
    /\ getBoundingBoxFromGeometry(prev, constrainedCells(prev, call.cell)) # Null

RectInside(b, max) ==
    /\ b.x >= max.x
    /\ b.y >= max.y
    /\ b.x + b.width <= max.x + max.width
    /\ b.y + b.height <= max.y + max.height

\* C9: constrainChild applied a second time, with nothing changed in
\* between, leaves the geometry the first application produced.
C9_ConstrainIdempotent ==
    call.op = "constrainChild" =>
        constrainChild(Store, call.cell).geometry = geometry

\* C10: after constrainChild with an allowed rectangle the cell is no wider
\* or taller than the rectangle, and the bounding box of the cell and its
\* visible descendants lies inside the rectangle whenever it is small enough
\* to fit; a cell that needed no change is not moved.
C10_ConstrainedInside ==
    ConstrainApplied =>
        LET cell == call.cell
            max == allowedArea(prev, cell)
            before == getBoundingBoxFromGeometry(prev, constrainedCells(prev, cell))
            after == getBoundingBoxFromGeometry(Store, constrainedCells(Store, cell))
            geo == geometry[cell]
        IN /\ geo.bounds.width <= max.width
           /\ geo.bounds.height <= max.height
           /\ (after.width <= max.width /\ after.height <= max.height)
                  => RectInside(after, max)
           /\ RectInside(before, max) => geo = prev.geometry[cell]

-----------------------------------------------------------------------------
(* Claims on connection points *)

\* the call resolved the centre constraint (0.5, 0.5) with zero offset on a
\* rendered terminal
centreResolved ==
    /\ call.op = "getConnectionPoint"
    /\ call.constraint.point = Point(Num(1), Num(1))
    /\ call.constraint.dx = Num(0) /\ call.constraint.dy = Num(0)
    /\ hasState(Snapshot, call.terminal)

\* the centre of the terminal's perimeter bounds
perimeterCentre == centerOf(getPerimeterBounds(stateOf(Snapshot, call.terminal)))

\* C12: getConnectionPoint for the constraint (0.5, 0.5) with zero offset
\* returns the centre of the terminal's perimeter bounds, for every rotation,
\* direction and flip of the terminal
C12_CentrePoint == centreResolved => call.result = perimeterCentre

\* C12 (amended): with the perimeter snap off, the point is the centre of the
\* perimeter bounds, rounded to whole device units when round is set
C12_CentreOffPerimeter ==
    (centreResolved /\ ~call.constraint.perimeter) =>
        call.result = rounded(perimeterCentre, call.round)

\* a flipped, turned terminal with a centre off the device grid resolved the
\* centre constraint with the snap off
C12_Witness ==
    /\ centreResolved /\ ~call.constraint.perimeter /\ call.round
    /\ call.terminal = "n1" /\ config.flipH /\ config.direction = "north"
    /\ getRotation("n1") = 45
    /\ call.result # perimeterCentre

-----------------------------------------------------------------------------
(* Claims on moving and grouping *)

\* the node has an absolute geometry in the negative quadrant
Negative(c) ==
    /\ geometry[c] # Null
    /\ ~geometry[c].relative
    /\ (geometry[c].bounds.x < 0 \/ geometry[c].bounds.y < 0)

\* C13: with negative coordinates disallowed, after any sequence of addCells,
\* moveCells, resizeCells, alignCells, groupCells, updateGroupBounds,
\* foldCells and constrainChild every non-relative node has x >= 0 and y >= 0
C13_NonNegative ==
    ~config.allowNegativeCoordinates => \A c \in Nodes : ~Negative(c)

\* C14: after any sequence of addCells, moveCells with a target, groupCells,
\* ungroupCells and removeCellsFromParent the parent/child relation is a
\* tree: no cell is its own ancestor and a cell appears exactly once in the
\* child sequence of its one parent
C14_Tree == IsTree(Snapshot)

\* the call put a cell below itself or below one of its descendants
PlacedBelowItself ==
    \/ call.op = "addCells" /\ Above(prev, call.cells, call.parent)
    \/ call.op = "moveCells" /\ call.target # Nil /\ Above(prev, call.cells, call.target)
    \/ call.op = "groupCells" /\ GroupsBelowItself(prev, call.group, call.cells)

\* C14 (amended): a call that puts no cell below itself or one of its
\* descendants leaves the parent/child relation a tree
C14_TreeKept == (IsTree(prev) /\ ~PlacedBelowItself) => IsTree(Snapshot)

\* a group was put between a parent and its child, and a moved cell changed
\* its parent
C14_Witness ==
    /\ calls = 2
    /\ call.op = "moveCells" /\ prev.parent["n2"] = "n3" /\ parent["n2"] = Root
    /\ prev.parent["n3"] = "n1"
    /\ IsTree(Snapshot)

-----------------------------------------------------------------------------
(* Claims on invalid input *)

\* the call was given a null array or an array with a null entry
InvalidReference == "threw" \in DOMAIN call /\ "cells" \in DOMAIN call /\ hasNull(call.cells)

\* C15: a bulk operation given a null cell array, an array with null entries
\* or (splitEdge) an empty cell list never raises an error, and a call given
\* no cell at all leaves the store as it was
C15_SilentSkip ==
    /\ InvalidReference => ~call.threw
    /\ (InvalidReference /\ call.cells \in {NoCells, << Nil >>}) => Snapshot = prev
    /\ (call.op = "splitEdge" /\ call.cells = << >>) => (~call.threw /\ Snapshot = prev)

\* C16: resizeCells with arrays of different lengths changes no geometry,
\* extends no parent, constrains no child and emits no cellsResized event
C16_MismatchNoOp ==
    (call.op = "resizeCells" /\ Len(call.cells) # Len(call.bounds)) =>
        /\ Snapshot = prev
        /\ applied = << >>
        /\ \A i \in DOMAIN fired : fired[i].name # "cellsResized"

\* two cells were given one rectangle that differs from the bounds of the
\* first cell
C16_Witness ==
    /\ call.op = "resizeCells"
    /\ Len(call.cells) = 2 /\ Len(call.bounds) = 1
    /\ prev.geometry[call.cells[1]].bounds # call.bounds[1]
    /\ calls = 1

-----------------------------------------------------------------------------
(* Claims on the writes of geometries *)

-----------------------------------------------------------------------------
(* Claims on connection constraints and ports *)

\* C18: setConnectionConstraint is the inverse of getConnectionConstraint:
\* a constraint with a point, written to the edge's style and read back on
\* the same side, comes back with the same point, perimeter flag, dx and dy
C18_RoundTrip ==
    (/\ call.op = "setConnectionConstraint"
     /\ call.constraint # Null
     /\ call.constraint.point # Null)
        => call.result = call.constraint

\* C19: without a constraint, setConnectionConstraint and connectCell clear
\* the keys of that side, and the constraint read back has no point
C19_NullClears ==
    (/\ call.op \in {"setConnectionConstraint", "connectCell"}
     /\ call.constraint = Null)
        => call.result.point = Null

\* C20: connectCell with ports enabled attaches the edge to the owning cell
\* of a port and writes the port's id under sourcePort (targetPort); any
\* other terminal becomes the edge's terminal itself
C20_PortTerminal ==
    (call.op = "connectCell" /\ isPortsEnabled)
        => IF call.terminal # Nil /\ isPort(call.terminal)
           THEN /\ getTerminal(Snapshot, call.edge, call.isSource) = parent[call.terminal]
                /\ config.style[call.edge][sideKey(call.isSource, "sourcePort", "targetPort")]
                       = getId(call.terminal)
           ELSE getTerminal(Snapshot, call.edge, call.isSource) = call.terminal

\* the edge was connected to the port n2 on its source side and to the plain
\* node n3 on its target side
C20_Witness ==
    /\ call.op = "connectCell"
    /\ isPortsEnabled
    /\ source["e1"] = "n1"
    /\ target["e1"] = "n3"
    /\ config.style["e1"]["sourcePort"] = getId("n2")
    /\ config.style["e1"]["targetPort"] = Null

-----------------------------------------------------------------------------
(* Claims on the queries *)

Count(seq, x) == Cardinality({ i \in DOMAIN seq : seq[i] = x })

\* the visible ends of the edge e are both the cell c
LoopOf(e, c) ==
    /\ getVisibleTerminal(Snapshot, e, TRUE) = c
    /\ getVisibleTerminal(Snapshot, e, FALSE) = c

\* C21: getEdges reports each incident edge at most once; an edge whose
\* visible source and visible target are both the node is reported exactly
\* once with includeLoops and not at all without
C21_EdgesOnce ==
    call.op = "getEdges"
        => /\ \A e \in Edges : Count(call.result, e) <= 1
           /\ \A e \in Edges :
                  (LoopOf(e, call.node) /\ contains(Snapshot, e))
                      => Count(call.result, e) = (IF call.includeLoops THEN 1 ELSE 0)

\* the end t of an edge is hidden inside the node: a descendant of a
\* collapsed node, or an invisible descendant of a node that is not collapsed
HiddenIn(t, node) ==
    /\ t # Nil /\ t # node
    /\ isAncestor(Snapshot, node, t)
    /\ (collapsed[node] \/ ~visible[t])

\* the edge e has one end hidden inside the node and its other visible end
\* outside of the node
LeavesHidden(e, node) ==
    \E isSource \in BOOLEAN :
        /\ HiddenIn(getTerminal(Snapshot, e, isSource), node)
        /\ getVisibleTerminal(Snapshot, e, ~isSource) # Nil
        /\ ~isAncestor(Snapshot, node, getVisibleTerminal(Snapshot, e, ~isSource))

\* C22: getEdges(node) returns the edges of the hidden descendants of the
\* node, at every depth, whose other visible terminal lies outside the node
C22_HiddenDescendants ==
    (/\ call.op = "getEdges"
     /\ call.incoming /\ call.outgoing /\ call.parent = Nil)
        => \A e \in Edges :
               (contains(Snapshot, e) /\ LeavesHidden(e, call.node))
                   => Count(call.result, e) >= 1

\* the rendered, visible cell c has its own box, turned by its rotation,
\* inside the rectangle
FitsRegion(c, rect) ==
    /\ hasState(Snapshot, c) /\ visible[c]
    /\ RectInside(regionBounds(Store, c), rect)

\* every cell strictly between c and the parent p is rendered and visible
\* and does not fit
RECURSIVE TestedBelow(_, _, _)
TestedBelow(c, p, rect) ==
    /\ c # Nil
    /\ \/ parent[c] = p
       \/ /\ parent[c] # Nil
          /\ hasState(Snapshot, parent[c]) /\ visible[parent[c]]
          /\ ~FitsRegion(parent[c], rect)
          /\ TestedBelow(parent[c], p, rect)

\* C23: getCellsInRegion returns a cell only if its own box fits the
\* rectangle; the children of a rendered cell that does not fit are tested
\* the same way, and the result never holds a cell and one of its
\* descendants
C23_Region ==
    (call.op = "getCellsInRegion" /\ call.parent # Nil)
        => /\ \A c \in Cells :
                  Count(call.result, c)
                      = (IF /\ call.rect.width > 0 \/ call.rect.height > 0
                            /\ c # call.parent
                            /\ isAncestor(Snapshot, call.parent, c)
                            /\ FitsRegion(c, call.rect)
                            /\ TestedBelow(c, call.parent, call.rect)
                         THEN 1 ELSE 0)
           /\ \A c \in SeqToSet(call.result), d \in SeqToSet(call.result) :
                  c # d => ~isAncestor(Snapshot, c, d)

\* n1 does not fit the rectangle although all its rendered children do, and
\* the children are returned without it
C23_Witness ==
    /\ call.op = "getCellsInRegion"
    /\ call.parent = Root
    /\ visible["n2"]
    /\ call.result = << "n2", "n3" >>

\* the visible node children of the parent of the call
Candidates == { c \in Nodes : parent[c] = call.parent /\ visible[c] }

\* the connections that findTreeRoots counts for the candidate c
ConnsOf(c) == getConnections(Store, c, IF call.isolate THEN call.parent ELSE Nil)

Qualifies(c) == isTreeRoot(Store, c, ConnsOf(c), call.invert)

DiffOf(c) == fanDiff(Store, c, ConnsOf(c), call.invert)

\* C24: findTreeRoots returns every visible node child with zero fan-in and
\* positive fan-out (the inverse when inverted); when none qualifies it
\* returns the single node of the greatest difference, so the result is not
\* empty when a visible node child has connections
C24_TreeRoots ==
    call.op = "findTreeRoots"
        => /\ \A c \in Candidates : Qualifies(c) => Count(call.result, c) = 1
           /\ ((\A c \in Candidates : ~Qualifies(c))
                  /\ (\E c \in Candidates : Len(ConnsOf(c)) > 0))
                  => /\ Len(call.result) = 1
                     /\ call.result[1] \in Candidates
                     /\ \A c \in Candidates : DiffOf(c) <= DiffOf(call.result[1])

\* the nodes one edge away from n in the direction of the call: the targets
\* of its outgoing edges, the sources of its incoming edges when inverse,
\* both when undirected
Neighbours(n, directed, inverse) ==
    { c \in Cells :
        \E e \in Edges :
            /\ contains(Snapshot, e)
            /\ \/ (~directed \/ ~inverse) /\ source[e] = n /\ target[e] = c
               \/ (~directed \/ inverse) /\ target[e] = n /\ source[e] = c }

\* the nodes reached from the set S by paths that do not go on from a node
\* of stops
RECURSIVE ReachedFrom(_, _, _, _)
ReachedFrom(S, stops, directed, inverse) ==
    IF \A n \in S \ stops : Neighbours(n, directed, inverse) \subseteq S
    THEN S
    ELSE ReachedFrom(S \cup UNION { Neighbours(n, directed, inverse) : n \in S \ stops },
                     stops, directed, inverse)

\* the number of calls of the visitor on the node n
Visits(n) == Cardinality({ i \in DOMAIN call.result.log : call.result.log[i].node = n })

\* C25: traverse ends on graphs with cycles, self-loops and dangling edges
\* and calls the visitor at most once per node; directed and not inverse,
\* with a visitor that never returns false, it visits exactly the nodes
\* reachable from the start along edges from source to target
C25_Traverse ==
    call.op = "traverse"
        => /\ \A n \in Cells : Visits(n) <= 1
           /\ \A n \in Cells : Visits(n) = 1 <=> n \in call.result.visited
           /\ (call.directed /\ ~call.inverse /\ call.stops = {})
                  => call.result.visited = ReachedFrom({call.node}, {}, TRUE, FALSE)

\* a directed walk from n2 around the cycle n2, n3, n1 with n1 a loop end
C25_Witness ==
    /\ call.op = "traverse"
    /\ call.directed /\ ~call.inverse /\ call.stops = {}
    /\ call.node = "n2"
    /\ source["e1"] = "n2" /\ target["e1"] = "n3"
    /\ source["e3"] = "n3" /\ target["e3"] = "n1"
    /\ source["e2"] = "n1" /\ target["e2"] = "n1"
    /\ call.result.visited = {"n1", "n2", "n3"}

\* C26: no edge is followed from a node on which the visitor returned
\* false, the walk goes on over the other edges, and a node beyond the
\* aborted one is visited only if another path reaches it
C26_Abort ==
    call.op = "traverse"
        => /\ call.result.visited
                  = ReachedFrom({call.node}, call.stops, call.directed, call.inverse)
           /\ \A i \in DOMAIN call.result.log :
                  call.result.log[i].edge # Nil
                      => \E n \in call.result.visited \ call.stops :
                             /\ n \in {source[call.result.log[i].edge],
                                       target[call.result.log[i].edge]}
                             /\ \E j \in 1 .. (i - 1) : call.result.log[j].node = n

\* the visitor stopped the walk at n3: n1 beyond it is not visited, and the
\* walk went on from n2 to another node
C26_Witness ==
    /\ call.op = "traverse"
    /\ call.stops = {"n3"}
    /\ "n3" \in call.result.visited
    /\ "n1" \in ReachedFrom({call.node}, {}, call.directed, call.inverse)
    /\ "n1" \notin call.result.visited
    /\ \E i \in DOMAIN call.result.log :
           \E j \in DOMAIN call.result.log :
               /\ call.result.log[i].node = "n3"
               /\ j > i

-----------------------------------------------------------------------------
(* Claims on resizing *)

\* the offset of a geometry, the zero point when it has none yet
OffsetOf(geo) == IF geo.offset = Null THEN Point(0, 0) ELSE geo.offset

\* the last call resized one cell that had a relative geometry to bounds
\* other than its own
ResizedRelative ==
    /\ call.op = "resizeCells"
    /\ Len(call.cells) = 1
    /\ prev.geometry[call.cells[1]] # Null
    /\ prev.geometry[call.cells[1]].relative
    /\ prev.geometry[call.cells[1]].bounds # call.bounds[1]

\* C27: resizeCells on a cell with a relative geometry shifts the offset by
\* the difference of the positions, leaves bounds.x and bounds.y as they
\* were and takes the width and the height of the target bounds, also for a
\* geometry that has no offset yet
C27_RelativeResize ==
    ResizedRelative
        => /\ geometry[call.cells[1]].bounds
                  = [prev.geometry[call.cells[1]].bounds EXCEPT
                        !.width = call.bounds[1].width,
                        !.height = call.bounds[1].height]
           /\ OffsetOf(geometry[call.cells[1]])
                  = Point(OffsetOf(prev.geometry[call.cells[1]]).x
                              + call.bounds[1].x - prev.geometry[call.cells[1]].bounds.x,
                          OffsetOf(prev.geometry[call.cells[1]]).y
                              + call.bounds[1].y - prev.geometry[call.cells[1]].bounds.y)

\* the last call resized one node with an absolute geometry, whose parent is
\* extended, has a geometry and is not collapsed, to bounds that stick out
\* of the parent
ResizedBeyond ==
    /\ call.op = "resizeCells"
    /\ Len(call.cells) = 1
    /\ isExtendParent(call.cells[1])
    /\ prev.geometry[call.cells[1]] # Null
    /\ ~prev.geometry[call.cells[1]].relative
    /\ prev.geometry[call.cells[1]].bounds # call.bounds[1]
    /\ prev.parent[call.cells[1]] # Nil
    /\ prev.geometry[prev.parent[call.cells[1]]] # Null
    /\ ~prev.collapsed[prev.parent[call.cells[1]]]
    /\ ~RectInside(call.bounds[1],
                   [prev.geometry[prev.parent[call.cells[1]]].bounds EXCEPT
                       !.x = 0, !.y = 0])

\* the requested bounds start right of and below the parent's origin
GrowsRightOrDown == call.bounds[1].x >= 0 /\ call.bounds[1].y >= 0

\* the visible descendants of the resized cell lie within the requested bounds
\* (constrainChild measures the bounding box of the cell with its descendants)
DescendantsWithin ==
    getBoundingBoxFromGeometry(
        [Store EXCEPT !.geometry[call.cells[1]].bounds = call.bounds[1]],
        constrainedCells(Store, call.cells[1])) = call.bounds[1]

\* the parent's box, in the parent's own coordinates, holds the child's
Holds(pgeo, geo) == RectInside(geo.bounds, [pgeo.bounds EXCEPT !.x = 0, !.y = 0])

\* the proper ancestors of c that have a geometry
GeometryAncestors(c) ==
    { a \in Cells : a # c /\ isAncestor(Store, a, c) /\ prev.geometry[a] # Null }

\* nothing keeps the ancestors from growing: no maximum graph bounds, and
\* every ancestor is expanded, not a swimlane, and has an absolute geometry
\* that starts right of and below its own parent's origin
AncestorsFree ==
    /\ config.maximumGraphBounds = Null
    /\ \A a \in GeometryAncestors(call.cells[1]) :
           /\ ~prev.collapsed[a]
           /\ ~isSwimlane(a)
           /\ ~prev.geometry[a].relative
           /\ prev.geometry[a].bounds.x >= 0
           /\ prev.geometry[a].bounds.y >= 0

ResizeEvents == SelectSeq(fired, LAMBDA f : f.name = "cellsResized")

\* the cells cellsResized was entered for
Entered == { ResizeEvents[i].cells[1] : i \in DOMAIN ResizeEvents }

\* the child of ancestor a on the chain from the resized cell upwards
ChainChild(a) ==
    CHOOSE c \in Cells : prev.parent[c] = a /\ isAncestor(prev, c, call.cells[1])

\* the bounds cellsResized is entered with: the requested bounds for the
\* resized cell, the bounds grown over the child for an ancestor
RECURSIVE EnteredBounds(_)
EnteredBounds(c) ==
    IF c = call.cells[1] THEN call.bounds[1]
    ELSE [prev.geometry[c].bounds EXCEPT
             !.width = Max(@, EnteredBounds(ChainChild(c)).x
                              + EnteredBounds(ChainChild(c)).width),
             !.height = Max(@, EnteredBounds(ChainChild(c)).y
                               + EnteredBounds(ChainChild(c)).height)]

\* ancestor a is smaller than its child on the chain needs
HadToGrow(a) ==
    \/ prev.geometry[a].bounds.width
           < EnteredBounds(ChainChild(a)).x + EnteredBounds(ChainChild(a)).width
    \/ prev.geometry[a].bounds.height
           < EnteredBounds(ChainChild(a)).y + EnteredBounds(ChainChild(a)).height

\* cellsResized ran once for the resized cell and otherwise only for an
\* expanded ancestor that had to grow over its resized, non-relative child
ReentersOnlyToGrow ==
    /\ \A i, j \in DOMAIN ResizeEvents :
           ResizeEvents[i].cells = ResizeEvents[j].cells => i = j
    /\ \A i \in DOMAIN ResizeEvents :
           /\ Len(ResizeEvents[i].cells) = 1
           /\ \/ ResizeEvents[i].cells[1] = call.cells[1]
              \/ /\ isAncestor(prev, ResizeEvents[i].cells[1], call.cells[1])
                 /\ prev.geometry[ResizeEvents[i].cells[1]] # Null
                 /\ ~prev.collapsed[ResizeEvents[i].cells[1]]
                 /\ ChainChild(ResizeEvents[i].cells[1]) \in Entered
                 /\ isExtendParent(ChainChild(ResizeEvents[i].cells[1]))
                 /\ ~prev.geometry[ChainChild(ResizeEvents[i].cells[1])].relative
                 /\ HadToGrow(ResizeEvents[i].cells[1])

\* the expanded ancestors whose child on the chain was resized and has an
\* absolute geometry
ExtendedOver ==
    { a \in GeometryAncestors(call.cells[1]) :
        /\ ~collapsed[a]
        /\ ChainChild(a) \in Entered
        /\ isExtendParent(ChainChild(a))
        /\ ~geometry[ChainChild(a)].relative }

\* the parent's box reaches the right and the bottom side of the child's
ReachesOver(pgeo, geo) ==
    /\ geo.bounds.x + geo.bounds.width <= pgeo.bounds.width
    /\ geo.bounds.y + geo.bounds.height <= pgeo.bounds.height

-----------------------------------------------------------------------------
(* Claims on conflicting constraints *)

\* the maximum graph bounds in the frame of the parent of c, before the call
MaxBoundsFor(c) ==
    offsetMax(config.maximumGraphBounds,
              getBoundingBoxFromGeometry(prev, << prev.parent[c] >>))

\* two rectangles that share no point
Disjoint(a, b) ==
    \/ a.x + a.width < b.x \/ b.x + b.width < a.x
    \/ a.y + a.height < b.y \/ b.y + b.height < a.y

\* constrainChild ran on a cell whose containment area lies apart from the
\* maximum graph bounds
ConstrainedApart ==
    /\ call.op = "constrainChild"
    /\ prev.geometry[call.cell] # Null
    /\ ~prev.geometry[call.cell].relative
    /\ config.maximumGraphBounds # Null
    /\ isConstrainChild(prev, call.cell)
    /\ getCellContainmentArea(prev, call.cell) # Null
    /\ Disjoint(MaxBoundsFor(call.cell), getCellContainmentArea(prev, call.cell))

\* C29: when the maximum graph bounds and the containment area of the cell
\* do not intersect, constrainChild leaves the geometry of the cell as it is.
C29_NoClampWhenApart ==
    ConstrainedApart => geometry[call.cell] = prev.geometry[call.cell]

-----------------------------------------------------------------------------
(* Claims on the order of children *)

\* the cells of a list that are not null, in the order of the list
NonNull(cells) == SelectSeq(cells, LAMBDA c : c # Nil)

\* the sequence without the cells of the list
Without(seq, cells) == SelectSeq(seq, LAMBDA c : ~Contains(cells, c))

\* the cells stand in the sequence one after the other, in their order
Consecutive(seq, cells) ==
    \E k \in 0 .. Len(seq) - Len(cells) : SubSeq(seq, k + 1, k + Len(cells)) = cells

\* the cells stand in the sequence from the zero-based index on
StandsAt(seq, cells, index) ==
    /\ index + Len(cells) <= Len(seq)
    /\ SubSeq(seq, index + 1, index + Len(cells)) = cells

AddedAll ==
    \A i \in DOMAIN call.cells :
        call.cells[i] # Nil => parent[call.cells[i]] = call.parent

AddedNew ==
    \A i \in DOMAIN call.cells :
        call.cells[i] # Nil => prev.parent[call.cells[i]] # call.parent

\* C31: after addCells(cells, parent, index) with distinct cells and an index
\* from 0 to the child count, the cells that are not null are children of the
\* parent, stand one after the other in the order given (from the index on
\* when none was a child of the parent before), and the other children keep
\* their relative order.
C31_AddOrder ==
    call.op = "addCells" =>
        /\ AddedAll
        /\ Consecutive(children[call.parent], NonNull(call.cells))
        /\ AddedNew => StandsAt(children[call.parent], NonNull(call.cells), call.index)
        /\ Without(children[call.parent], call.cells)
               = Without(prev.children[call.parent], call.cells)

-----------------------------------------------------------------------------
(* Claims on the order of the writes of a disconnection *)

\* entry i of the change-set sets a terminal of an edge whose geometry no
\* earlier entry of the change-set has written
TerminalBeforeGeometry(changes, i) ==
    /\ changes[i][2] \in {"source", "target"}
    /\ \A j \in 1 .. i - 1 : changes[j] # << changes[i][1], "geometry" >>

\* C32: in disconnectTerminal and in disconnectGraph the geometry of the edge
\* with the frozen terminal point is written before the terminal is set to
\* null: no change-set has an entry that nulls a terminal of an edge before
\* the entry of that edge's geometry.
C32_GeometryFirst ==
    \A k \in DOMAIN notified :
        \A i \in DOMAIN notified[k] : ~TerminalBeforeGeometry(notified[k], i)

-----------------------------------------------------------------------------
(* Claims on the moment of the events *)

\* the events that announce an operation and the events of the operations
NamedEvents ==
    { "addCells", "cellsAdded", "removeCells", "cellsRemoved", "resizeCells",
      "cellsResized", "moveCells", "cellsMoved", "foldCells", "cellsFolded",
      "orderCells", "cellsOrdered", "alignCells", "groupCells", "splitEdge" }

\* the events that announce the request, each paired with the event of the
\* change
RequestEvents ==
    { "addCells", "removeCells", "resizeCells", "moveCells", "foldCells", "orderCells" }

\* C33: every named event of an operation is emitted while a batch of the
\* call is open, that is before the change-set of the call is delivered, and
\* the event that announces the call precedes every mutation of the call.
C33_EventsInBatch ==
    \A i \in DOMAIN fired :
        /\ fired[i].name \in NamedEvents => fired[i].level >= 1
        /\ (fired[i].name \in RequestEvents /\ fired[i].name = call.op)
               => fired[i].mutations = 0

\* the cells of the call were children of one parent before the call
SharedParent == prev.parent[call.cells[1]]

\* C34: orderCells(toBack, cells) for distinct cells that share one parent
\* only permutes the children of that parent: the cells end at the first
\* places (toBack) or at the last places, in the order given, and the other
\* children keep their relative order.
C34_Order ==
    call.op = "orderCells" =>
        /\ parent = prev.parent
        /\ geometry = prev.geometry
        /\ \A c \in Cells \ {SharedParent} : children[c] = prev.children[c]
        /\ Len(children[SharedParent]) = Len(prev.children[SharedParent])
        /\ Without(children[SharedParent], call.cells)
               = Without(prev.children[SharedParent], call.cells)
        /\ call.toBack => StandsAt(children[SharedParent], call.cells, 0)
        /\ ~call.toBack =>
               StandsAt(children[SharedParent], call.cells,
                        Len(children[SharedParent]) - Len(call.cells))

\* an orderCells call on cells of which the first stood behind the second,
\* in a parent that has other children as well
C34_Witness ==
    /\ call.op = "orderCells"
    /\ Len(call.cells) >= 2
    /\ children[SharedParent] # prev.children[SharedParent]
    /\ Len(children[SharedParent]) > Len(call.cells)
    /\ \E i, j \in DOMAIN prev.children[SharedParent] :
           /\ i > j
           /\ prev.children[SharedParent][i] = call.cells[1]
           /\ prev.children[SharedParent][j] = call.cells[2]

-----------------------------------------------------------------------------
(* Claims on flipEdge *)

\* the cell has no style of its own: its style is null or has no key
NoOwnStyle(style) == style = Null \/ style = NoStyle

\* C35: with an alternate edge style configured, flipEdge toggles the style
\* of the edge between the alternate edge style and no own style, so that
\* the style after an odd number of calls is the style after one call and
\* the style after an even number of calls is the original one; every call
\* clears the waypoints of the edge.
C35_FlipToggles ==
    (call.op = "flipEdge" /\ call.edge # Nil /\ config.alternateEdgeStyle # Null) =>
        /\ NoOwnStyle(call.before) => config.style[call.edge] = config.alternateEdgeStyle
        /\ call.before = config.alternateEdgeStyle => NoOwnStyle(config.style[call.edge])
        /\ geometry[call.edge].points = << >>

-----------------------------------------------------------------------------
(* Claims on foldCells *)

\* graph.isFoldable on the store before the call
WasFoldable(c) == Len(prev.children[c]) > 0

\* the call left the collapsed flag and the alternate bounds of the cell, the
\* bounds were not swapped
NotFolded(c) ==
    /\ collapsed[c] = prev.collapsed[c]
    /\ geometry[c] = Null \/ geometry[c].alternateBounds = prev.geometry[c].alternateBounds

\* C36: foldCells with checkFoldable neither changes the collapsed flag nor
\* swaps the bounds of a cell that is not foldable, the descendants reached
\* by recurse included.
C36_OnlyFoldable ==
    (call.op = "foldCells" /\ call.checkFoldable) =>
        \A c \in Cells : ~WasFoldable(c) => NotFolded(c)

\* the collapsed flag of the cell changed in the call
Flipped(c) == collapsed[c] # prev.collapsed[c]

\* every cell of the call was in the state asked for before the call
AlreadyFolded ==
    \A i \in DOMAIN call.cells : prev.collapsed[call.cells[i]] = call.collapse

\* the write of the collapsed flag of the cell is followed by the write of
\* its geometry
SwapFollows(c) ==
    \E i \in DOMAIN applied :
        /\ applied[i] = << c, "collapsed" >>
        /\ i < Len(applied)
        /\ applied[i + 1] = << c, "geometry" >>

\* the geometry of the cell was written before its collapsed flag, by the
\* extension of a parent or the constraint of a child
ResizedBefore(c) ==
    \E i, j \in DOMAIN applied :
        j < i /\ applied[i] = << c, "collapsed" >> /\ applied[j] = << c, "geometry" >>

\* C37: foldCells keeps the collapsed flag and the swap of the bounds in
\* step.  A cell whose flag changes has its bounds and alternate bounds
\* swapped right away: the bounds it had are its alternate bounds
\* afterwards.  A cell whose flag stays keeps its alternate bounds, and a
\* call on cells that are in the state asked for already changes neither a
\* flag nor a geometry.
C37_FoldInStep ==
    call.op = "foldCells" =>
        /\ \A c \in Nodes :
               /\ Flipped(c) =>
                      /\ SwapFollows(c)
                      /\ geometry[c].alternateBounds # Null
                      /\ ~ResizedBefore(c) =>
                             geometry[c].alternateBounds = prev.geometry[c].bounds
               /\ ~Flipped(c) =>
                      geometry[c].alternateBounds = prev.geometry[c].alternateBounds
        /\ AlreadyFolded => (collapsed = prev.collapsed /\ geometry = prev.geometry)

\* an expand of a collapsed cell that brings back bounds of another size
C37_Witness ==
    /\ call.op = "foldCells"
    /\ ~call.collapse
    /\ \E c \in Nodes :
           /\ Flipped(c)
           /\ prev.geometry[c].alternateBounds # Null
           /\ geometry[c].bounds.width = prev.geometry[c].alternateBounds.width
           /\ geometry[c].bounds.width # prev.geometry[c].bounds.width


(***************************************************************************)
(* Claims on the settings of the graph                                     *)
(***************************************************************************)

C39_SplitPartitions ==
    (/\ call.op = "splitEdge"
     /\ prev.source[call.edge] # Nil
     /\ prev.target[call.edge] # Nil) =>
        /\ source[call.newEdge] = prev.source[call.edge]
        /\ target[call.newEdge] = call.cells[1]
        /\ source[call.edge] = call.cells[1]
        /\ target[call.edge] = prev.target[call.edge]
        /\ parent[call.newEdge] = prev.parent[call.edge]
        /\ parent[call.edge] = prev.parent[call.edge]
        /\ geometry[call.newEdge].points \o geometry[call.edge].points
               = prev.geometry[call.edge].points


(***************************************************************************)
(* Claims on the port id of a connection                                   *)
(***************************************************************************)

\* C40: with ports enabled, after connectCell on a side of an edge the port
\* id in the style of the edge describes the connection of that side: the
\* id of the port when the terminal given is a port, no id when it is another
\* cell or none.
C40_PortIdCurrent ==
    (/\ call.op = "connectCell"
     /\ config.portsEnabled) =>
        config.style[call.edge][sideKey(call.isSource, "sourcePort", "targetPort")]
            = IF call.terminal # Nil /\ isPort(call.terminal)
              THEN getId(call.terminal)
              ELSE Null

====
